---- MODULE Spec2Model ----
(***************************************************************************)
(* Model of the extraction pipeline of the scraper: the background         *)
(* ScrapingEngine (result cache, worker pool, extract) and the parts of    *)
(* the content script it talks to (DOMScanner.scrape, the mutation         *)
(* observer and its cache).                                                *)
(*                                                                         *)
(* Every action is one JavaScript task: a handler runs to completion       *)
(* together with the promise continuations (microtasks) it releases.       *)
(***************************************************************************)
EXTENDS Integers, Sequences, FiniteSets, TLC

(* ------------------------------ bounds -------------------------------- *)
\* the constructor's loop is cut after this many workers
MaxPool == 2
\* the clock advances in steps of Tick, at most MaxTicks times
MaxTicks == 2
\* number of child-list mutations of the document
MaxDoc == 1

(* ------------------------- program constants -------------------------- *)
\* Date.now() - cached.timestamp < 30000
TTL == 30000
\* ... || 4
DefaultConcurrency == 4
\* children > 3
MinChildren == 3
\* textLength > 100
MinTextLength == 100

\* one step of the clock: half a TTL, so that the ages 0, TTL/2 and TTL occur
Tick == TTL \div 2
\* the extract calls of a behaviour: enough to occupy a pool of two workers
\* and still issue one more
CallIds == {1, 2, 3}
\* tab ids the callers pass
Tabs == {1}
\* values navigator.hardwareConcurrency takes (0 would stand for "not available")
HCValues == {1}

VARIABLES
  hardwareConcurrency,  \* navigator.hardwareConcurrency
  workerPool,           \* this.workerPool: sequence of [busy, onmessage, inbox]
  cache,                \* this.cache: cacheKey -> [data, timestamp]
  calls,                \* the extract calls and where each stands
  now,                  \* Date.now()
  doc,                  \* version of the document tree in the tab
  observed,             \* target of the last child-list mutation reported to the observer
  scannerCache,         \* DOMScanner.cache
  picker,               \* the ElementPicker and the listeners it has on the document
  input,                \* argument of the function a specification of a function applies
  output                \* what the function returned for it

vars == <<hardwareConcurrency, workerPool, cache, calls, now, doc, observed, scannerCache,
          picker, input, output>>

(* ------------------------------ configs ------------------------------- *)
\* A config object: its own keys in insertion order, and their values.
\* A processor argument "fn" or "gn" stands for a function value (a
\* predicate), any other argument is a string.
Functions == {"fn", "gn"}
\* the value of a field written `field: undefined`
Undefined == "<undefined>"
NoProcessors == <<>>
CfgAuto == [keys |-> <<"mode">>, mode |-> "auto", processors |-> NoProcessors]
CfgTable == [keys |-> <<"mode">>, mode |-> "table", processors |-> NoProcessors]
CfgFilter == [keys |-> <<"mode", "processors">>, mode |-> "auto",
              processors |-> <<[name |-> "filter", args |-> <<"fn">>]>>]
Configs == {CfgAuto, CfgTable, CfgFilter}

(* --------------------------- JSON.stringify --------------------------- *)
Quote(s) == "\"" \o s \o "\""

\* a function inside an array is written as null
JsonArg(a) == IF a \in Functions THEN "null" ELSE Quote(a)

RECURSIVE JsonArgs(_, _)
JsonArgs(args, i) ==
  IF i > Len(args) THEN ""
  ELSE (IF i > 1 THEN "," ELSE "") \o JsonArg(args[i]) \o JsonArgs(args, i + 1)

JsonProcessor(p) ==
  "{" \o Quote("name") \o ":" \o Quote(p.name) \o "," \o Quote("args") \o ":["
      \o JsonArgs(p.args, 1) \o "]}"

RECURSIVE JsonProcessors(_, _)
JsonProcessors(ps, i) ==
  IF i > Len(ps) THEN ""
  ELSE (IF i > 1 THEN "," ELSE "") \o JsonProcessor(ps[i]) \o JsonProcessors(ps, i + 1)

JsonField(config, k) ==
  Quote(k) \o ":" \o (IF k = "processors"
                      THEN "[" \o JsonProcessors(config.processors, 1) \o "]"
                      ELSE Quote(config[k]))

\* a property whose value is undefined is left out
Serialised(config) ==
  LET IsDefined(k) == k = "processors" \/ config[k] # Undefined IN SelectSeq(config.keys, IsDefined)

RECURSIVE JsonFields(_, _)
JsonFields(config, i) ==
  IF i > Len(Serialised(config)) THEN ""
  ELSE (IF i > 1 THEN "," ELSE "") \o JsonField(config, Serialised(config)[i])
       \o JsonFields(config, i + 1)

\* JSON.stringify(config): the own keys in insertion order
Stringify(config) == "{" \o JsonFields(config, 1) \o "}"

\* `${tabId}:${JSON.stringify(config)}`
cacheKey(tabId, config) == ToString(tabId) \o ":" \o Stringify(config)

(* ------------------------- the content script ------------------------- *)
\* what chrome.tabs.sendMessage delivers: the config after JSON serialisation
\* (a function among the arguments arrives as null)
JsonRoundTrip(config) ==
  [config EXCEPT !.processors =
     [i \in DOMAIN config.processors |->
        [config.processors[i] EXCEPT !.args =
           [j \in DOMAIN config.processors[i].args |->
              IF config.processors[i].args[j] \in Functions THEN "null"
              ELSE config.processors[i].args[j]]]]]

\* undefined
NoValue == [kind |-> "none", content |-> 0, message |-> ""]

\* the modes whose case of the switch calls a method DOMScanner does not define
\* (extractTables, extractLists, extractWithSelectors)
UndefinedMethodModes == {"table", "list", "custom"}

\* DOMScanner.scrape on version d of the document: { data, metadata } or, when
\* the selected branch throws, { error: message }.  The data is determined by
\* the document; the metadata is left out.
scrape(config, d) ==
  IF config.mode \in UndefinedMethodModes
  THEN [kind |-> "error", content |-> 0, message |-> "is not a function"]
  ELSE [kind |-> "result", content |-> d, message |-> ""]

\* the tags DOMScanner.isDataContainer accepts
dataTags == {"table", "ul", "ol", "div", "section"}

isDataContainer(element) ==
  IF element.tagName \notin dataTags THEN FALSE
  ELSE element.children > MinChildren \/ element.textLength > MinTextLength

\* mutation targets the observer is handed
Targets ==
  { [tagName |-> "ul", children |-> 4, textLength |-> 0],
    [tagName |-> "div", children |-> 3, textLength |-> 100] }

NoTarget == [tagName |-> "", children |-> 0, textLength |-> 0]

\* new WeakMap()
EmptyWeakMap == {}

(* ---------------------------- post-processing -------------------------- *)
processors == {"deduplicate", "sort", "filter"}

\* an array value; its items are objects [ref, v]: ref is the identity of the
\* object, v its numeric property "v"
Array(items) == [kind |-> "array", content |-> items, message |-> ""]
IsArray(value) == value.kind = "array"

\* the predicates a caller passes as the functions "fn" and "gn"
Predicate(f, item) == IF f = "fn" THEN item.v > 1 ELSE item.v <= 1

\* deduplicate: [...new Set(arr)] keeps the first occurrence of every object
RECURSIVE Deduplicate(_)
Deduplicate(items) ==
  IF items = <<>> THEN <<>>
  ELSE LET rest == Deduplicate(SubSeq(items, 1, Len(items) - 1))
           last == items[Len(items)]
       IN IF \E i \in DOMAIN rest : rest[i].ref = last.ref THEN rest
          ELSE Append(rest, last)

\* insertion of an item behind the items that do not compare greater
RECURSIVE InsertSorted(_, _)
InsertSorted(sorted, item) ==
  IF sorted = <<>> THEN <<item>>
  ELSE IF sorted[Len(sorted)].v - item.v > 0
       THEN Append(InsertSorted(SubSeq(sorted, 1, Len(sorted) - 1), item),
                   sorted[Len(sorted)])
       ELSE Append(sorted, item)

\* sort: arr.sort((a, b) => a[key] - b[key]), a stable sort; for a key the
\* items do not have the comparator yields NaN and the order is kept
RECURSIVE SortBy(_, _)
SortBy(items, key) ==
  IF key # "v" \/ items = <<>> THEN items
  ELSE InsertSorted(SortBy(SubSeq(items, 1, Len(items) - 1), key), items[Len(items)])

\* filter: arr.filter(predicate)
RECURSIVE Filter(_, _)
Filter(items, f) ==
  IF items = <<>> THEN <<>>
  ELSE (IF Predicate(f, Head(items)) THEN <<Head(items)>> ELSE <<>>)
       \o Filter(Tail(items), f)

\* processors[processor.name](result, ...processor.args) on an array
ApplyProcessor(p, items) ==
  IF p.name = "deduplicate" THEN Deduplicate(items)
  ELSE IF p.name = "sort" THEN SortBy(items, IF p.args = <<>> THEN "undefined" ELSE p.args[1])
  ELSE Filter(items, p.args[1])

\* the calls that throw a TypeError: a value that is not an array has no
\* sort / filter method and cannot be spread into a Set; filter needs a function
ProcessorThrows(p, value) ==
  \/ ~IsArray(value)
  \/ p.name = "filter" /\ (p.args = <<>> \/ p.args[1] \notin Functions)

\* One pass of the forEach of processInline.
RECURSIVE ApplyProcessors(_, _, _)
ApplyProcessors(result, ps, i) ==
  IF i > Len(ps) THEN [thrown |-> FALSE, value |-> result]
  ELSE IF ps[i].name \in processors
       THEN IF ProcessorThrows(ps[i], result) THEN [thrown |-> TRUE, value |-> NoValue]
            ELSE ApplyProcessors(Array(ApplyProcessor(ps[i], result.content)), ps, i + 1)
  ELSE ApplyProcessors(result, ps, i + 1)

processInline(data, config) == ApplyProcessors(data, config.processors, 1)

\* structured clone of the job payload: a function cannot be cloned
Cloneable(config) ==
  \A i \in DOMAIN config.processors :
    \A j \in DOMAIN config.processors[i].args : config.processors[i].args[j] \notin Functions

\* what the worker script computes for a job
WorkerProcess(job) == processInline(job.data, job.config)

\* what the promise of processInWorker settles with when a worker is free:
\* postMessage throws for a payload that cannot be cloned, else the worker's
\* answer (its message resolves, its error rejects)
processInWorker(data, config) ==
  IF Cloneable(config)
  THEN WorkerProcess([action |-> "process", data |-> data, config |-> config])
  ELSE [thrown |-> TRUE, value |-> NoValue]

(* ------------------------------ the pool ------------------------------ *)
NewWorker == [busy |-> FALSE, onmessage |-> 0, inbox |-> <<>>]

\* i < navigator.hardwareConcurrency || 4   parses as   (i < hc) || 4
LoopCondition(i, hc) == (hc # 0 /\ i < hc) \/ DefaultConcurrency # 0

\* the constructor's loop has been cut
Constructed == Len(workerPool) = MaxPool

\* variant: the last free worker instead of the first
FirstFree_last(pool) ==
  IF \E w \in DOMAIN pool : ~pool[w].busy
  THEN CHOOSE w \in DOMAIN pool :
         ~pool[w].busy /\ \A v \in (w + 1)..Len(pool) : pool[v].busy
  ELSE 0

\* variant: no inline fallback, the first worker is taken when none is free
FirstFree_orFirst(pool) ==
  IF \E w \in DOMAIN pool : ~pool[w].busy
  THEN CHOOSE w \in DOMAIN pool : ~pool[w].busy /\ \A v \in 1..(w - 1) : pool[v].busy
  ELSE 1

\* this.workerPool.find(w => !w.busy): index of the first free worker, 0 if none
FirstFree(pool) ==
  IF \E w \in DOMAIN pool : ~pool[w].busy
  THEN CHOOSE w \in DOMAIN pool : ~pool[w].busy /\ \A v \in 1..(w - 1) : pool[v].busy
  ELSE 0

(* ------------------------------ the cache ----------------------------- *)
\* variant: the TTL taken in seconds
IsFresh_seconds(cached, t) == t - cached.timestamp < TTL \div 1000

\* variant: an entry of age exactly TTL still counts as live
IsFresh_inclusive(cached, t) == t - cached.timestamp <= TTL

\* Date.now() - cached.timestamp < 30000
IsFresh(cached, t) == t - cached.timestamp < TTL

\* this.cache.set(key, entry)
CacheSet(c, key, entry) ==
  [k \in DOMAIN c \cup {key} |-> IF k = key THEN entry ELSE c[k]]

EmptyMap == [k \in {} |-> NoValue]

(* ------------------------------ the calls ----------------------------- *)
IdleCall ==
  [pc |-> "idle", tabId |-> 0, config |-> CfgAuto, response |-> NoValue,
   result |-> NoValue, error |-> "", sends |-> 0, fromCache |-> FALSE,
   inline |-> FALSE, worker |-> 0, expired |-> FALSE, workerEvent |-> ""]

Key(c) == cacheKey(calls[c].tabId, calls[c].config)

\* variant: the error is logged and swallowed, extract returns undefined
Rejected_swallowed(call, error) == [call EXCEPT !.pc = "done"]

\* variant: the error is caught and the data processed inline instead
Rejected_inline(call, error) ==
  [call EXCEPT !.pc = "done", !.inline = TRUE,
               !.result = processInline(call.response, call.config).value]

\* the catch block of extract: console.error(...); throw error
Rejected(call, error) == [call EXCEPT !.pc = "failed", !.error = error]

\* new ElementPicker(): not picking, nothing highlighted (0 stands for null),
\* no listener on the document
NewPicker == [isPicking |-> FALSE, highlightedElement |-> 0, listeners |-> 0]

\* no function applied
NoInput == [set |-> FALSE]
NoOutput == [set |-> FALSE]

\* the engine right after `this.cache = new Map(); this.workerPool = []`
EngineInit ==
  /\ hardwareConcurrency \in HCValues
  /\ workerPool = <<>>
  /\ cache = EmptyMap
  /\ calls = [c \in CallIds |-> IdleCall]
  /\ now = 0
  /\ doc = 0
  /\ observed = NoTarget
  /\ scannerCache = EmptyWeakMap
  /\ picker = NewPicker

background == <<hardwareConcurrency, workerPool, cache, calls, now, doc, observed, scannerCache>>
engine == <<background, picker>>

Init ==
  /\ input = NoInput
  /\ output = NoOutput
  /\ EngineInit

\* one iteration of the loop of initWorkers
initWorkers ==
  /\ LoopCondition(Len(workerPool), hardwareConcurrency)
  /\ Len(workerPool) < MaxPool
  /\ workerPool' = Append(workerPool, NewWorker)
  /\ UNCHANGED <<input, output, picker>>
  /\ UNCHANGED <<hardwareConcurrency, cache, calls, now, doc, observed, scannerCache>>

\* extract(tabId, config) up to its first await: a cache hit returns, a miss
\* sends the message to the tab
extract(c, tabId, config) ==
  /\ Constructed
  /\ calls[c].pc = "idle"
  /\ \A b \in 1..(c - 1) : calls[b].pc # "idle"
  /\ LET key == cacheKey(tabId, config)
         hit == key \in DOMAIN cache /\ IsFresh(cache[key], now)
     IN calls' = [calls EXCEPT ![c] =
          IF hit
          THEN [IdleCall EXCEPT !.pc = "done", !.tabId = tabId, !.config = config,
                                !.result = cache[key].data, !.fromCache = TRUE]
          ELSE [IdleCall EXCEPT !.pc = "sent", !.tabId = tabId, !.config = config,
                                !.sends = 1, !.expired = key \in DOMAIN cache]]
  /\ UNCHANGED <<input, output, picker>>
  /\ UNCHANGED <<hardwareConcurrency, workerPool, cache, now, doc, observed, scannerCache>>

\* the content script's listener: handleExtract answers with scrape(config)
handleExtract(c) ==
  /\ calls[c].pc = "sent"
  /\ calls' = [calls EXCEPT ![c].pc = "answered",
                            ![c].response = scrape(JsonRoundTrip(calls[c].config), doc)]
  /\ UNCHANGED <<input, output, picker>>
  /\ UNCHANGED <<hardwareConcurrency, workerPool, cache, now, doc, observed, scannerCache>>

\* variant: a failed send is retried once before the error is given up on
sendMessageFailed_retry(c) ==
  /\ calls[c].pc = "sent"
  /\ calls' = [calls EXCEPT ![c] = IF @.sends < 2 THEN [@ EXCEPT !.sends = @ + 1]
                                   ELSE Rejected(@, "lastError")]
  /\ UNCHANGED <<input, output, picker>>
  /\ UNCHANGED <<hardwareConcurrency, workerPool, cache, now, doc, observed, scannerCache>>

\* the sendMessage callback with chrome.runtime.lastError set: the promise
\* rejects and extract rethrows
sendMessageFailed(c) ==
  /\ calls[c].pc = "sent"
  /\ calls' = [calls EXCEPT ![c] = Rejected(@, "lastError")]
  /\ UNCHANGED <<input, output, picker>>
  /\ UNCHANGED <<hardwareConcurrency, workerPool, cache, now, doc, observed, scannerCache>>

\* the rest of extract after a successful post-processing: cache.set and return
Stored(c, processedData) ==
  /\ cache' = CacheSet(cache, Key(c), [data |-> processedData, timestamp |-> now])

\* the sendMessage callback without lastError: the promise resolves with the
\* response and extract goes on into processInWorker
sendMessageCallback(c) ==
  /\ calls[c].pc = "answered"
  /\ LET data == calls[c].response
         config == calls[c].config
         w == FirstFree(workerPool)
     IN IF w = 0
        THEN \* every worker busy: processInline on the caller's thread
             LET r == processInline(data, config)
             IN /\ workerPool' = workerPool
                /\ IF r.thrown
                   THEN /\ calls' = [calls EXCEPT
                                       ![c] = Rejected([@ EXCEPT !.inline = TRUE], "TypeError")]
                        /\ cache' = cache
                   ELSE /\ calls' = [calls EXCEPT ![c].pc = "done", ![c].inline = TRUE,
                                                  ![c].result = r.value]
                        /\ Stored(c, r.value)
        ELSE \* busy = true, the two handlers are installed, then postMessage
             /\ cache' = cache
             /\ IF Cloneable(config)
                THEN /\ workerPool' = [workerPool EXCEPT
                          ![w].busy = TRUE, ![w].onmessage = c,
                          ![w].inbox = Append(@, [action |-> "process", data |-> data,
                                                  config |-> config])]
                     /\ calls' = [calls EXCEPT ![c].pc = "inWorker", ![c].worker = w]
                ELSE \* postMessage throws inside the promise executor
                     /\ workerPool' = [workerPool EXCEPT ![w].busy = TRUE, ![w].onmessage = c]
                     /\ calls' = [calls EXCEPT
                                    ![c] = Rejected([@ EXCEPT !.worker = w], "DataCloneError")]
  /\ UNCHANGED <<input, output, picker>>
  /\ UNCHANGED <<hardwareConcurrency, now, doc, observed, scannerCache>>

\* availableWorker.worker.onmessage: the worker answers its oldest job
onmessage(w) ==
  /\ w \in DOMAIN workerPool
  /\ workerPool[w].inbox # <<>>
  /\ LET r == WorkerProcess(Head(workerPool[w].inbox))
         c == workerPool[w].onmessage
     IN /\ ~r.thrown
        /\ workerPool' = [workerPool EXCEPT ![w].busy = FALSE, ![w].inbox = Tail(@)]
        /\ IF calls[c].pc = "inWorker"
           THEN /\ calls' = [calls EXCEPT ![c].pc = "done", ![c].result = r.value,
                                          ![c].workerEvent = "message"]
                /\ Stored(c, r.value)
           ELSE \* the promise is settled already: resolve does nothing
                UNCHANGED <<calls, cache>>
  /\ UNCHANGED <<input, output, picker>>
  /\ UNCHANGED <<hardwareConcurrency, now, doc, observed, scannerCache>>

\* availableWorker.worker.onerror: the worker fails on its oldest job
onerror(w) ==
  /\ w \in DOMAIN workerPool
  /\ workerPool[w].inbox # <<>>
  /\ LET c == workerPool[w].onmessage
     IN /\ workerPool' = [workerPool EXCEPT ![w].busy = FALSE, ![w].inbox = Tail(@)]
        /\ IF calls[c].pc = "inWorker"
           THEN calls' = [calls EXCEPT
                          ![c] = Rejected([@ EXCEPT !.workerEvent = "error"], "WorkerError")]
           ELSE UNCHANGED calls
  /\ UNCHANGED <<input, output, picker>>
  /\ UNCHANGED <<hardwareConcurrency, cache, now, doc, observed, scannerCache>>

\* time passes
Clock ==
  /\ Constructed
  /\ now < MaxTicks * Tick
  /\ now' = now + Tick
  /\ UNCHANGED <<input, output, picker>>
  /\ UNCHANGED <<hardwareConcurrency, workerPool, cache, calls, doc, observed, scannerCache>>

\* DOMScanner.clearCache
clearCache == scannerCache' = EmptyWeakMap

\* a child-list mutation of the document, and the MutationObserver callback
\* of startObserving for it
startObserving(target) ==
  /\ Constructed
  /\ doc < MaxDoc
  /\ doc' = doc + 1
  /\ observed' = target
  /\ IF isDataContainer(target) THEN clearCache ELSE scannerCache' = scannerCache
  /\ UNCHANGED <<input, output, picker>>
  /\ UNCHANGED <<hardwareConcurrency, workerPool, cache, calls, now>>

Next ==
  \/ initWorkers
  \/ \E c \in CallIds, tabId \in Tabs, config \in Configs : extract(c, tabId, config)
  \/ \E c \in CallIds : handleExtract(c)
  \/ \E c \in CallIds : sendMessageFailed(c)
  \/ \E c \in CallIds : sendMessageCallback(c)
  \/ \E w \in 1..MaxPool : onmessage(w)
  \/ \E w \in 1..MaxPool : onerror(w)
  \/ Clock
  \/ \E target \in Targets : startObserving(target)

Spec == Init /\ [][Next]_vars

(* ------------------------------ claims -------------------------------- *)
\* call c leaves "idle" in this step, i.e. extract is invoked
Starts(c) == calls[c].pc = "idle" /\ calls'[c].pc # "idle"
StartKey(c) == cacheKey(calls'[c].tabId, calls'[c].config)
Ended(c) == calls[c].pc \in {"done", "failed"}
Ends(c) == ~Ended(c) /\ Ended(c)'
AllBusy == \A w \in DOMAIN workerPool : workerPool[w].busy
\* N of the pool: the reported hardware concurrency, or 4
PoolSizeN ==
  IF hardwareConcurrency # 0 THEN hardwareConcurrency ELSE DefaultConcurrency

ExpiredEntryRecomputed ==
  [][ \A c \in CallIds :
        /\ (Starts(c) /\ StartKey(c) \in DOMAIN cache
              /\ now - cache[StartKey(c)].timestamp >= TTL)
           => /\ calls'[c].pc = "sent"
              /\ calls'[c].sends = 1
              /\ ~calls'[c].fromCache
        /\ (Ends(c) /\ calls'[c].pc = "done" /\ ~calls'[c].fromCache)
           => /\ calls'[c].sends = 1
              /\ Key(c) \in DOMAIN cache'
              /\ cache'[Key(c)] = [data |-> calls'[c].result, timestamp |-> now] ]_vars

\* a call found an expired entry, recomputed and replaced it
ExpiredEntryWitness ==
  \E c \in CallIds :
    /\ calls[c].pc = "done" /\ calls[c].expired /\ ~calls[c].fromCache
    /\ cache[Key(c)].timestamp >= TTL

\* C3: when the observer reports a child-list mutation whose target is a
\* likely data container, the extraction cache is empty afterwards.
MutationClearsExtractionCache ==
  [][ (doc' # doc /\ isDataContainer(observed')) => DOMAIN cache' = {} ]_vars

\* C4: a step in which an extract call fails, or ends with an {error} answer
\* of the content script, leaves the cache unchanged.
FailedExtractLeavesCacheUnchanged ==
  [][ \A c \in CallIds :
        (Ends(c) /\ (calls'[c].pc = "failed" \/ calls'[c].response.kind = "error"))
        => cache' = cache ]_vars

\* C5: the pool never holds more than N workers, N the reported hardware
\* concurrency or 4.
PoolHasFixedSizeN == Len(workerPool) <= PoolSizeN

\* C6: with no post-processing job in flight every worker is free.
WorkersFreeWhenNoJobInFlight ==
  (\A c \in CallIds : calls[c].pc # "inWorker") => ~(\E w \in DOMAIN workerPool : workerPool[w].busy)

\* jobs posted to the workers of the pool and not yet answered
RECURSIVE InFlight(_)
InFlight(pool) ==
  IF pool = <<>> THEN 0 ELSE Len(Head(pool).inbox) + InFlight(Tail(pool))

\* C7: a worker never holds more than one unanswered job and is busy while it
\* holds one, no two pending calls own the same worker; a job is only posted
\* to a worker whose busy flag is false, the worker a call acquires is the
\* first free one in pool order, and a call resolved by its worker receives
\* the answer to the job carrying its own data and config.
ExclusiveWorkerOwnership ==
  /\ [](\A w \in DOMAIN workerPool :
          /\ Len(workerPool[w].inbox) <= 1
          /\ workerPool[w].inbox # <<>> => workerPool[w].busy)
  /\ [](\A a, b \in CallIds :
          (a # b /\ calls[a].pc = "inWorker" /\ calls[b].pc = "inWorker")
          => calls[a].worker # calls[b].worker)
  /\ [][ /\ \A w \in DOMAIN workerPool :
              Len(workerPool'[w].inbox) > Len(workerPool[w].inbox)
              => ~workerPool[w].busy
         /\ \A c \in CallIds :
              (calls[c].pc = "answered" /\ calls'[c].worker # 0)
              => /\ ~workerPool[calls'[c].worker].busy
                 /\ \A v \in 1..(calls'[c].worker - 1) : workerPool[v].busy
         /\ \A c \in CallIds :
              (calls[c].pc = "inWorker" /\ calls'[c].pc = "done")
              => LET job == Head(workerPool[calls[c].worker].inbox)
                 IN /\ job.data = calls[c].response
                    /\ job.config = calls[c].config
                    /\ calls'[c].result = WorkerProcess(job).value ]_vars

\* the second worker was acquired because the first one was busy with a job,
\* and both calls got their answers
ExclusiveOwnershipWitness ==
  \E a, b \in CallIds :
    /\ a # b
    /\ calls[a].worker = 1 /\ calls[b].worker = 2
    /\ calls[a].workerEvent = "message" /\ calls[b].workerEvent = "message"
    /\ calls[a].result # calls[b].result

\* C8: a call that reaches processInWorker while every worker is busy is
\* processed inline and ends in the same step, acquiring no worker and leaving
\* the pool as it is; the jobs in flight never outnumber the workers.
InlineWhenAllBusy ==
  /\ [](InFlight(workerPool) <= Len(workerPool))
  /\ [][ \A c \in CallIds :
           /\ (calls[c].pc = "answered" /\ calls'[c].pc # "answered" /\ AllBusy)
              => /\ calls'[c].inline
                 /\ Ended(c)'
                 /\ calls'[c].worker = 0
                 /\ workerPool' = workerPool
                 /\ calls'[c].pc = "done" => calls'[c].result = calls[c].response
           /\ (calls'[c].inline /\ ~calls[c].inline) => workerPool' = workerPool ]_vars

\* a call was processed inline while every worker was working on a job
InlineWitness ==
  \E c \in CallIds :
    /\ calls[c].inline /\ calls[c].pc = "done" /\ calls[c].result.kind = "result"
    /\ \A w \in DOMAIN workerPool : workerPool[w].busy /\ workerPool[w].inbox # <<>>

\* C9: a call whose worker failed has ended with a result that was processed
\* inline.
WorkerErrorRecovered ==
  \A c \in CallIds :
    calls[c].workerEvent = "error" => calls[c].pc = "done" /\ calls[c].inline

\* C9, amended: a call whose worker failed has failed; its data was not
\* processed inline and it has no result.
WorkerErrorNotRecovered ==
  \A c \in CallIds :
    calls[c].workerEvent = "error"
    => calls[c].pc = "failed" /\ ~calls[c].inline /\ calls[c].result = NoValue

\* a worker failed on the job of a call
WorkerErrorWitness ==
  \E c \in CallIds : calls[c].workerEvent = "error" /\ calls[c].worker # 0

\* C10: in the step in which the worker of a pending call reports an error
\* the call fails with that error and nothing is cached; in the step in which
\* it reports a result the call ends with the data of the worker's message.
WorkerFailurePropagates ==
  [][ \A c \in CallIds :
        /\ (calls[c].pc = "inWorker" /\ calls'[c].workerEvent = "error")
           => /\ calls'[c].pc = "failed"
              /\ calls'[c].error = "WorkerError"
              /\ cache' = cache
        /\ (calls[c].pc = "inWorker" /\ calls'[c].workerEvent = "message")
           => /\ calls'[c].pc = "done"
              /\ calls'[c].result =
                   WorkerProcess(Head(workerPool[calls[c].worker].inbox)).value ]_vars

\* one call failed with its worker's error and another got its worker's data
WorkerFailureWitness ==
  \E a, b \in CallIds :
    /\ calls[a].pc = "failed" /\ calls[a].error = "WorkerError"
    /\ calls[b].pc = "done" /\ calls[b].workerEvent = "message"

\* C11: a call whose message to the tab is not answered (lastError) fails in
\* that step with that error, having sent exactly one message; it acquires no
\* worker, changes no worker's state and writes no cache entry.
TreeAccessFailureIsHard ==
  [][ \A c \in CallIds :
        (calls[c].pc = "sent" /\ calls'[c] # calls[c] /\ calls'[c].pc # "answered")
        => /\ calls'[c].pc = "failed"
           /\ calls'[c].error = "lastError"
           /\ calls'[c].sends = 1
           /\ calls'[c].worker = 0
           /\ workerPool' = workerPool
           /\ cache' = cache ]_vars

\* a call failed on an unreachable tab and its key has no cache entry
TreeAccessFailureWitness ==
  \E c \in CallIds :
    /\ calls[c].pc = "failed" /\ calls[c].error = "lastError"
    /\ calls[c].sends = 1
    /\ Key(c) \notin DOMAIN cache

\* C12: a pending call can always take its next step (the tab answers or the
\* send fails, the callback runs, its worker answers), and a busy worker
\* always has a job whose answer will free it.
NothingPendingForever ==
  /\ \A c \in CallIds :
       /\ calls[c].pc = "sent" => ENABLED handleExtract(c)
       /\ calls[c].pc = "answered" => ENABLED sendMessageCallback(c)
       /\ calls[c].pc = "inWorker" => ENABLED onerror(calls[c].worker)
  /\ \A w \in DOMAIN workerPool :
       workerPool[w].busy => ENABLED onerror(w)

(* ------------------- post-processing as a function -------------------- *)
\* longest array handed to the post-processing
MaxItems == 2
\* longest list of processors in a config
MaxProcessors == 2

\* the objects the arrays hold: two of them have the same v
PostItems == { [ref |-> 1, v |-> 2], [ref |-> 2, v |-> 1], [ref |-> 3, v |-> 2] }

\* the data: arrays of those objects, and the response object of a tab
PostData ==
  { Array(items) : items \in UNION { [1..n -> PostItems] : n \in 0..MaxItems } }
    \cup { scrape(CfgAuto, 0) }

\* processor entries of a config; "reverse" is a name processInline does not know
PostProcessors ==
  { [name |-> "deduplicate", args |-> <<>>],
    [name |-> "sort", args |-> <<"v">>],
    [name |-> "sort", args |-> <<"w">>],
    [name |-> "filter", args |-> <<"fn">>],
    [name |-> "reverse", args |-> <<>>] }

PostConfigs ==
  { [keys |-> <<"mode", "processors">>, mode |-> "auto", processors |-> ps] :
      ps \in UNION { [1..n -> PostProcessors] : n \in 0..MaxProcessors } }

PostInit ==
  /\ input \in { [set |-> TRUE, data |-> d, config |-> c] : d \in PostData, c \in PostConfigs }
  /\ output = NoOutput
  /\ EngineInit

\* the same (data, config) through processInline and through a free worker
PostProcess ==
  /\ ~output.set
  /\ output' = [set |-> TRUE,
                inline |-> processInline(input.data, input.config),
                worker |-> processInWorker(input.data, input.config)]
  /\ UNCHANGED input
  /\ UNCHANGED engine

PostNext == PostProcess

PostSpec == PostInit /\ [][PostNext]_vars

\* C13: for every (data, config) the result through a pool worker and the
\* result of processInline are equal.
FallbackEquivalence == output.set => output.worker = output.inline

(* ----------------------- candidate scoring ------------------------------ *)
\* most children a candidate node has
MaxChildren == 5
\* CONFIDENCE_THRESHOLD of the three detectors, in hundredths
TABLE_CONFIDENCE_THRESHOLD == 60
LIST_CONFIDENCE_THRESHOLD == 50
PRODUCT_CONFIDENCE_THRESHOLD == 60

\* the score 1, in a unit that keeps k/d exact for every d up to 10 and
\* every multiple of 1/300
One == 2520 * 100
Pct(n) == n * (One \div 100)
Ratio(c, d) == (c * One) \div d
Min(a, b) == IF a < b THEN a ELSE b
Max(a, b) == IF a > b THEN a ELSE b
Abs(a) == IF a < 0 THEN 0 - a ELSE a
Count(S) == Cardinality(S)

\* `className.includes(word)` on the class tokens of a node
Contains(token, word) == word = token \/ <<token, word>> \in {<<"items", "item">>}
Includes(className, word) == \E token \in className : Contains(token, word)

\* the items of a candidate node.  None of them is a div, section, article,
\* ul, ol or table, and none is laid out as flex or grid, so no finder
\* strategy selects an item itself.
card ==
  [tagName |-> "LI", className |-> "card", cells |-> 3, price |-> TRUE, image |-> TRUE,
   button |-> TRUE, title |-> TRUE, keyword |-> TRUE, rect |-> [width |-> 200, height |-> 120]]
link ==
  [tagName |-> "LI", className |-> "link", cells |-> 2, price |-> FALSE, image |-> FALSE,
   button |-> TRUE, title |-> TRUE, keyword |-> FALSE, rect |-> [width |-> 200, height |-> 120]]
text ==
  [tagName |-> "P", className |-> "", cells |-> 0, price |-> FALSE, image |-> FALSE,
   button |-> FALSE, title |-> FALSE, keyword |-> FALSE, rect |-> [width |-> 80, height |-> 20]]

\* some cards or some links, then plain paragraphs
ChildLists ==
  { [i \in 1..n |-> IF i <= k THEN a ELSE text] :
      n \in 0..MaxChildren, k \in 0..MaxChildren, a \in {card, link} }

\* what a node carries besides its items: class tokens, id, layout, box,
\* text length / html length in hundredths, words of its text
Plain ==
  [className |-> {}, id |-> "", display |-> "block",
   rect |-> [width |-> 40, height |-> 40], density |-> 5, words |-> {}]
Rich ==
  [className |-> {"product", "grid", "list"}, id |-> "products",
   display |-> "flex", rect |-> [width |-> 400, height |-> 300], density |-> 30,
   words |-> {"price", "name"}]

Elements ==
  { [tagName |-> t, className |-> a.className, id |-> a.id, display |-> a.display,
     rect |-> a.rect, density |-> a.density, words |-> a.words, children |-> ch] :
      t \in {"TABLE", "UL", "DIV"}, a \in {Plain, Rich}, ch \in ChildLists }

\* positions of a candidate list: two candidates are what an order needs
DocLengths == {0, 1, 2}
Documents == UNION { [1..n -> Elements] : n \in DocLengths }

\* `.sort((a, b) => b.score - a.score)`: stable, so a later candidate goes
\* behind every earlier one whose score is not smaller
RECURSIVE InsertByScore_unstable(_, _)
InsertByScore_unstable(sorted, x) ==
  IF sorted = <<>> THEN <<x>>
  ELSE IF Head(sorted).score > x.score
       THEN <<Head(sorted)>> \o InsertByScore_unstable(Tail(sorted), x)
       ELSE <<x>> \o sorted
RECURSIVE InsertByScore(_, _)
InsertByScore(sorted, x) ==
  IF sorted = <<>> THEN <<x>>
  ELSE IF Head(sorted).score >= x.score
       THEN <<Head(sorted)>> \o InsertByScore(Tail(sorted), x)
       ELSE <<x>> \o sorted
RECURSIVE SortByScore(_)
SortByScore(entries) ==
  IF entries = <<>> THEN <<>>
  ELSE InsertByScore(SortByScore(SubSeq(entries, 1, Len(entries) - 1)), entries[Len(entries)])

\* `return { element, score: Math.min(1, score), confidence: score, ... }`;
\* the element is the position of the node in the document
Scored(e, raw) == [element |-> e, score |-> Min(One, raw), confidence |-> raw]

\* `.filter(x => x.score >= this.CONFIDENCE_THRESHOLD)`
AboveThreshold(entries, threshold) ==
  SelectSeq(entries, LAMBDA x : x.score >= Pct(threshold))

(* TableDetector *)
IsTable(el) == el.tagName = "TABLE"

\* items are block-level: a non-table row is a child with offsetHeight > 0
getRowCount(table) ==
  IF IsTable(table) THEN Len(table.children)
  ELSE Count({ i \in 1..Len(table.children) : table.children[i].rect.height > 0 })

RECURSIVE MaxCells(_, _)
MaxCells(children, n) ==
  IF n = 0 THEN 0 ELSE Max(MaxCells(children, n - 1), children[n].cells)

getColumnCount(table) ==
  IF IsTable(table)
  THEN IF Len(table.children) > 0 THEN table.children[1].cells ELSE 0
  ELSE MaxCells(table.children, Min(5, Len(table.children)))

\* rows 1 .. min(sample, length) - 1 of the code are items 2 .. min(sample, length)
ConsistentRows(children, sample) ==
  Count({ i \in 2..Min(sample, Len(children)) : children[i].cells = children[1].cells })

getDivStructureScore(div) ==
  IF Len(div.children) < 2 THEN 0
  ELSE Ratio(ConsistentRows(div.children, 5), Min(5, Len(div.children) - 1))

getStructureScore(table) ==
  IF ~IsTable(table) THEN getDivStructureScore(table)
  ELSE IF Len(table.children) < 2 THEN 0
  ELSE Ratio(ConsistentRows(table.children, 10), Min(10, Len(table.children) - 1))

\* the nodes carry none of role, aria-label, data-table, data-grid
TableWords == {"table", "grid", "list", "data", "results", "products"}
TablePatterns == {"price", "total", "quantity", "description", "name"}
TableSemanticScore(table) ==
  Min(Pct(25), Pct(5) * Count({ w \in TableWords : Includes(table.className, w) })
               + Pct(2) * Count(TablePatterns \cap table.words))

TableScore(table) ==
  (IF IsTable(table) THEN Pct(30) ELSE 0)
  + (IF getRowCount(table) >= 5 THEN Pct(20) ELSE 0)
  + (IF getColumnCount(table) >= 3 THEN Pct(15) ELSE 0)
  + (IF table.density > 10 THEN Pct(10) ELSE 0)
  + (getStructureScore(table) * 15) \div 100
  + TableSemanticScore(table)
  + (IF table.rect.width > 100 /\ table.rect.height > 50 THEN Pct(10) ELSE 0)

scoreTables(tables) ==
  SortByScore(AboveThreshold([i \in 1..Len(tables) |-> Scored(i, TableScore(tables[i]))],
                             TABLE_CONFIDENCE_THRESHOLD))

(* ListDetector *)
IsList(el) == el.tagName \in {"UL", "OL"}

getItemCount(list) ==
  IF IsList(list) THEN Len(list.children)
  ELSE Count({ i \in 1..Len(list.children) : list.children[i].rect.height > 0 })

getConsistencyScore(list) ==
  IF Len(list.children) < 2 THEN 0
  ELSE Ratio(Count({ i \in 2..Min(10, Len(list.children)) :
                       /\ list.children[i].tagName = list.children[1].tagName
                       /\ list.children[i].className = list.children[1].className }),
             Min(10, Len(list.children) - 1))

ListWords == {"list", "items", "collection", "products", "menu", "nav"}
ListSemanticScore(list) == Min(Pct(25), Pct(5) * Count({ w \in ListWords : Includes(list.className, w) }))

ListScore(list) ==
  (IF IsList(list) THEN Pct(30) ELSE 0)
  + (IF getItemCount(list) >= 5 THEN Pct(20) ELSE 0)
  + (getConsistencyScore(list) * 20) \div 100
  + (IF list.density > 20 THEN Pct(10) ELSE 0)
  + ListSemanticScore(list)
  + (IF list.rect.width > 50 /\ list.rect.height > 50 THEN Pct(10) ELSE 0)

scoreLists(lists) ==
  SortByScore(AboveThreshold([i \in 1..Len(lists) |-> Scored(i, ListScore(lists[i]))],
                             LIST_CONFIDENCE_THRESHOLD))

(* ProductDetector *)
isProductLike(element) ==
  (IF element.price THEN 3 ELSE 0) + (IF element.image THEN 2 ELSE 0)
  + (IF element.button THEN 1 ELSE 0) + (IF element.title THEN 1 ELSE 0)
  + (IF element.rect.width > 100 /\ element.rect.height > 50 THEN 1 ELSE 0) >= 3

\* product-like items among the first `sample` ones
ProductLikeCount(children, sample) ==
  Count({ i \in 1..Min(sample, Len(children)) : isProductLike(children[i]) })

\* consistency of the first five items, in tenths
analyzePattern(children) ==
  LET samples == SubSeq(children, 1, Min(5, Len(children)))
      uniqueTags == { samples[i].tagName : i \in 1..Len(samples) }
      uniqueClasses == { samples[i].className : i \in 1..Len(samples) } \ {""}
      consistentSize ==
        \A i \in 1..Len(samples) :
          /\ Abs(samples[i].rect.width - samples[1].rect.width) < 50
          /\ Abs(samples[i].rect.height - samples[1].rect.height) < 50
  IN [consistentStructure |-> IF Count(uniqueTags) = 1 THEN 10 ELSE 5,
      consistentClasses |-> IF Count(uniqueClasses) <= 2 THEN 10 ELSE 3,
      consistentSize |-> IF consistentSize THEN 10 ELSE 2]

IsFlexOrGrid(el) == el.display \in {"flex", "grid"}

findGridProducts(el) ==
  /\ el.tagName \in {"DIV", "SECTION", "UL", "LI"}
  /\ IsFlexOrGrid(el)
  /\ Len(el.children) >= 2
  /\ ProductLikeCount(el.children, 5) >= 2

findListProducts(el) ==
  /\ el.tagName \in {"UL", "OL"}
  /\ Len(el.children) >= 2
  /\ ProductLikeCount(el.children, 5) >= 2

findTableProducts(el) ==
  /\ el.tagName = "TABLE"
  /\ Len(el.children) >= 2
  /\ Count({ i \in 1..Min(5, Len(el.children)) :
               el.children[i].price \/ el.children[i].keyword }) >= 2

findCardProducts(el) ==
  /\ el.tagName \in {"DIV", "ARTICLE", "SECTION"}
  /\ \E word \in {"card", "product", "item"} : Includes(el.className, word)
  /\ \E i \in 1..Len(el.children) :
       el.children[i].price \/ el.children[i].image \/ el.children[i].button

findContainerProducts(el) ==
  /\ el.tagName \in {"DIV", "SECTION"}
  /\ Len(el.children) >= 3
  /\ analyzePattern(el.children).consistentStructure >= 7
  /\ ProductLikeCount(el.children, 3) >= 2

\* the nodes of the document a strategy returns, in document order
(* the strategies of TableDetector.findAllTables and ListDetector.findAllLists *)
MIN_ROWS == 2
MIN_COLS == 2
MIN_ITEMS == 3

\* items 2 .. min(3, length) must have the cell count of the first
findDivTables(el) ==
  /\ el.tagName = "DIV"
  /\ Len(el.children) >= MIN_ROWS
  /\ el.children[1].cells >= MIN_COLS
  /\ \A i \in 2..Min(3, Len(el.children)) : el.children[i].cells = el.children[1].cells

\* the cells of an item are its span, div and p descendants
findListTables(el) ==
  /\ el.tagName \in {"UL", "OL"}
  /\ Len(el.children) >= MIN_ROWS
  /\ \E i \in 1..Len(el.children) : el.children[i].cells >= MIN_COLS

VisibleChildren(el) ==
  Count({ i \in 1..Len(el.children) :
            el.children[i].rect.width > 0 /\ el.children[i].rect.height > 0 })

findGridTables(el) ==
  /\ el.tagName \in {"DIV", "SECTION"}
  /\ el.display \in {"flex", "grid"}
  /\ Len(el.children) >= MIN_ROWS * MIN_COLS
  /\ VisibleChildren(el) >= MIN_ROWS * MIN_COLS

\* similarCount counts the children with the tag and class of the first one
findDivLists(el) ==
  /\ el.tagName \in {"DIV", "SECTION"}
  /\ Len(el.children) >= MIN_ITEMS
  /\ Count({ i \in 1..Len(el.children) :
               /\ el.children[i].tagName = el.children[1].tagName
               /\ el.children[i].className = el.children[1].className }) >= MIN_ITEMS

findTableLists(el) ==
  /\ el.tagName = "TABLE"
  /\ Len(el.children) >= MIN_ITEMS
  /\ el.children[1].cells <= 3

findGridLists(el) ==
  /\ el.tagName \in {"DIV", "UL", "OL"}
  /\ el.display \in {"flex", "grid"}
  /\ Len(el.children) >= MIN_ITEMS
  /\ VisibleChildren(el) >= MIN_ITEMS

\* the filter of each strategy of the three finders
Strategy(name, el) ==
  CASE name = "tables" -> el.tagName = "TABLE"
    [] name = "divTables" -> findDivTables(el)
    [] name = "listTables" -> findListTables(el)
    [] name = "gridTables" -> findGridTables(el)
    [] name = "lists" -> el.tagName \in {"UL", "OL"}
    [] name = "divLists" -> findDivLists(el)
    [] name = "tableLists" -> findTableLists(el)
    [] name = "gridLists" -> findGridLists(el)
    [] name = "grid" -> findGridProducts(el)
    [] name = "list" -> findListProducts(el)
    [] name = "table" -> findTableProducts(el)
    [] name = "card" -> findCardProducts(el)
    [] name = "container" -> findContainerProducts(el)

RECURSIVE Matching(_, _, _)
Matching(d, name, n) ==
  IF n = 0 THEN <<>>
  ELSE Matching(d, name, n - 1) \o (IF Strategy(name, d[n]) THEN <<n>> ELSE <<>>)

\* `allContainers.add(container)`: a Set keeps the first insertion
RECURSIVE Distinct(_)
Distinct(nodes) ==
  IF nodes = <<>> THEN <<>>
  ELSE LET front == Distinct(SubSeq(nodes, 1, Len(nodes) - 1))
           last == nodes[Len(nodes)]
       IN IF \E i \in 1..Len(front) : front[i] = last THEN front ELSE Append(front, last)

\* strategies.forEach with try / catch: a strategy of `failing` throws before
\* it returns its array, the others add theirs to the Set
RECURSIVE Nominated(_, _, _)
Nominated_abort(d, names, failing) ==
  IF names = <<>> \/ Head(names) \in failing THEN <<>>
  ELSE Matching(d, Head(names), Len(d)) \o Nominated(d, Tail(names), failing)
Nominated(d, names, failing) ==
  IF names = <<>> THEN <<>>
  ELSE (IF Head(names) \in failing THEN <<>> ELSE Matching(d, Head(names), Len(d)))
       \o Nominated(d, Tail(names), failing)

TableStrategies == <<"tables", "divTables", "listTables", "gridTables">>
ListStrategies == <<"lists", "divLists", "tableLists", "gridLists">>
ProductStrategies == <<"grid", "list", "table", "card", "container">>

findProductContainers(d) == Distinct(Nominated(d, ProductStrategies, {}))

\* the nodes carry none of role, data-product, data-items, aria-label
ProductWords == {"product", "catalog", "grid", "list", "items", "shop", "store"}
ProductSemanticScore(element) ==
  Min(Pct(25), Pct(5) * Count({ w \in ProductWords : Includes(element.className, w) })
               + (IF element.id \in {"product", "products", "catalog"} THEN Pct(10) ELSE 0))

ContainerScore(container) ==
  LET childCount == Len(container.children)
      productRatio == Ratio(ProductLikeCount(container.children, 10), Max(1, childCount))
      pattern == analyzePattern(container.children)
  IN (IF childCount >= 3 THEN Pct(20) ELSE 0)
     + (productRatio * 30) \div 100
     + (pattern.consistentStructure + pattern.consistentClasses + pattern.consistentSize)
         * (One \div 150)
     + ProductSemanticScore(container)
     + (IF container.rect.width > 200 /\ container.rect.height > 100 THEN Pct(10) ELSE 0)

\* containers: positions in the document d
scoreContainers(d, containers) ==
  SortByScore(AboveThreshold(
    [i \in 1..Len(containers) |-> Scored(containers[i], ContainerScore(d[containers[i]]))],
    PRODUCT_CONFIDENCE_THRESHOLD))

(* ------------------------- selector ranking ----------------------------- *)
\* most expressions in a pool handed to a ranker
MaxExpressions == 7
\* `.slice(0, 5)`
TopCount == 5

\* a locator expression with what the ranker reads of it: whether
\* querySelectorAll throws on it, selector.length, the number of matches,
\* elements[0] === targetElement, startsWith('#'), includes('#'), the number
\* of '.', includes(' > '), includes('[')
idExpression ==
  [selector |-> "#main", throws |-> FALSE, length |-> 5, matches |-> 1, isExact |-> TRUE,
   startsWithHash |-> TRUE, hash |-> TRUE, dots |-> 0, child |-> FALSE, attribute |-> FALSE]
classExpression ==
  [selector |-> ".grid", throws |-> FALSE, length |-> 5, matches |-> 3, isExact |-> FALSE,
   startsWithHash |-> FALSE, hash |-> FALSE, dots |-> 1, child |-> FALSE, attribute |-> FALSE]
brokenExpression ==
  [selector |-> "div[data-id=", throws |-> TRUE, length |-> 12, matches |-> 0,
   isExact |-> FALSE, startsWithHash |-> FALSE, hash |-> FALSE, dots |-> 0, child |-> FALSE,
   attribute |-> TRUE]
\* an ancestor path of 400 characters matching 12 nodes
pathExpression ==
  [selector |-> "body > div > ... > div", throws |-> FALSE, length |-> 400, matches |-> 12,
   isExact |-> FALSE, startsWithHash |-> FALSE, hash |-> FALSE, dots |-> 0, child |-> TRUE,
   attribute |-> FALSE]

Expressions ==
  {idExpression, classExpression, brokenExpression, pathExpression}
Pools == UNION { [1..n -> Expressions] : n \in 0..MaxExpressions }

\* the score of the catch branch
Thrown == 0 - One

TableSelectorScore(s) ==
  IF s.throws THEN Thrown
  ELSE (IF s.isExact THEN 2 * One ELSE 0)
       + Ratio(100 - s.length, 100)
       + Ratio(Max(0, 5 - s.matches), 5)
       + (IF s.startsWithHash THEN One ELSE 0)
       + (IF s.dots > 0 /\ ~s.hash /\ s.dots >= 1 /\ s.dots <= 3 THEN Pct(50) ELSE 0)

ListSelectorScore(s) ==
  IF s.throws THEN Thrown
  ELSE (IF s.isExact THEN 2 * One ELSE 0)
       + Ratio(100 - s.length, 100)
       + Ratio(Max(0, 10 - s.matches), 10)
       + (IF s.startsWithHash THEN Pct(150) ELSE 0)
       + (IF s.dots > 0 /\ ~s.hash
          THEN IF s.dots = 1 THEN Pct(80) ELSE IF s.dots = 2 THEN Pct(100)
               ELSE IF s.dots = 3 THEN Pct(60) ELSE 0
          ELSE 0)

ProductSelectorScore(s) ==
  IF s.throws THEN Thrown
  ELSE Max(0,
       (IF s.isExact THEN 3 * One ELSE 0)
       + Ratio(150 - s.length, 150)
       + (IF s.matches = 1 THEN 2 * One
          ELSE IF s.matches <= 3 THEN Pct(150)
          ELSE IF s.matches <= 10 THEN One
          ELSE Max(0, Ratio(20 - s.matches, 20)))
       + (IF s.startsWithHash THEN 2 * One ELSE 0)
       + (IF s.dots > 0 /\ ~s.hash
          THEN IF s.dots = 1 THEN Pct(120) ELSE IF s.dots = 2 THEN Pct(150)
               ELSE IF s.dots = 3 THEN One ELSE Pct(50)
          ELSE 0)
       + (IF s.child THEN Pct(80) ELSE 0)
       + (IF s.attribute THEN Pct(50) ELSE 0))

\* `.slice(0, 5)`
Slice_tail(entries) == SubSeq(entries, Max(1, Len(entries) - TopCount + 1), Len(entries))
Slice(entries) == SubSeq(entries, 1, Min(TopCount, Len(entries)))

\* .map(...).filter(s => s.score > 0).sort((a, b) => b.score - a.score).slice(0, 5)
Rank(entries) == Slice(SortByScore(SelectSeq(entries, LAMBDA x : x.score > 0)))

rankSelectors(selectors) ==
  Rank([i \in 1..Len(selectors) |-> [selector |-> selectors[i].selector,
                                     score |-> TableSelectorScore(selectors[i])]])
rankListSelectors(selectors) ==
  Rank([i \in 1..Len(selectors) |-> [selector |-> selectors[i].selector,
                                     score |-> ListSelectorScore(selectors[i])]])
rankProductSelectors(selectors) ==
  Rank([i \in 1..Len(selectors) |-> [selector |-> selectors[i].selector,
                                     score |-> ProductSelectorScore(selectors[i])]])

RankInit ==
  /\ input \in { [set |-> TRUE, selectors |-> pool] : pool \in Pools }
  /\ output = NoOutput
  /\ EngineInit

TableRank ==
  /\ ~output.set
  /\ output' = [set |-> TRUE, fn |-> "table", result |-> rankSelectors(input.selectors)]
  /\ UNCHANGED input
  /\ UNCHANGED engine

ListRank ==
  /\ ~output.set
  /\ output' = [set |-> TRUE, fn |-> "list", result |-> rankListSelectors(input.selectors)]
  /\ UNCHANGED input
  /\ UNCHANGED engine

ProductRank ==
  /\ ~output.set
  /\ output' = [set |-> TRUE, fn |-> "product",
                result |-> rankProductSelectors(input.selectors)]
  /\ UNCHANGED input
  /\ UNCHANGED engine

RankNext == TableRank \/ ListRank \/ ProductRank

RankSpec == RankInit /\ [][RankNext]_vars

\* the score the ranker that answered gives an expression
ScoreOf(s) ==
  IF output.fn = "table" THEN TableSelectorScore(s)
  ELSE IF output.fn = "list" THEN ListSelectorScore(s)
  ELSE ProductSelectorScore(s)

Returned(s) == \E j \in 1..Len(output.result) : output.result[j].selector = s.selector

\* C15: a ranker returns at most 5 options in non-increasing score order, each
\* with a score above 0; no expression whose evaluation threw is returned, and
\* no valid expression left out has a higher score than a returned one.
RankerReturnsTopFive ==
  output.set =>
    /\ Len(output.result) <= TopCount
    /\ \A i, j \in 1..Len(output.result) :
         i < j => output.result[i].score >= output.result[j].score
    /\ \A j \in 1..Len(output.result) : output.result[j].score > 0
    /\ \A i \in 1..Len(input.selectors) :
         LET s == input.selectors[i]
         IN /\ s.throws => ~Returned(s)
            /\ ~s.throws /\ ~Returned(s)
                 => \A j \in 1..Len(output.result) : ScoreOf(s) <= output.result[j].score

\* five options returned from a pool that held a broken expression and more
\* than five valid ones of positive score
RankerWitness ==
  /\ output.set
  /\ Len(output.result) = TopCount
  /\ \E i \in 1..Len(input.selectors) : input.selectors[i].throws
  /\ Count({ i \in 1..Len(input.selectors) :
               ~input.selectors[i].throws /\ ScoreOf(input.selectors[i]) > 0 }) > TopCount
  /\ output.result[1].score > output.result[TopCount].score

(* ---------------------- locator expressions ---------------------------- *)
\* The document is <body> with the candidate nodes as its children; a node is
\* <<i, 0>> (the i-th child of body) or <<i, k>> (its k-th item).
Nodes(d) == UNION { { <<i, k>> : k \in 0..Len(d[i].children) } : i \in 1..Len(d) }
Before(n, m) == n[1] < m[1] \/ (n[1] = m[1] /\ n[2] < m[2])
lower(tagName) ==
  CASE tagName = "TABLE" -> "table" [] tagName = "UL" -> "ul" [] tagName = "DIV" -> "div"
    [] tagName = "LI" -> "li" [] tagName = "P" -> "p" [] OTHER -> tagName
tagOf(d, n) == IF n[2] = 0 THEN d[n[1]].tagName ELSE d[n[1]].children[n[2]].tagName
idOf(d, n) == IF n[2] = 0 THEN d[n[1]].id ELSE ""
classesOf(d, n) ==
  IF n[2] = 0 THEN d[n[1]].className
  ELSE IF d[n[1]].children[n[2]].className = "" THEN {}
  ELSE { d[n[1]].children[n[2]].className }
parentTagOf(d, n) == IF n[2] = 0 THEN "body" ELSE lower(d[n[1]].tagName)
Siblings(d, n) == { m \in Nodes(d) : (n[2] = 0 /\ m[2] = 0) \/ (n[2] # 0 /\ m[2] # 0 /\ m[1] = n[1]) }
ChildIndex(d, n) == Count({ m \in Siblings(d, n) : m = n \/ Before(m, n) })
TypeIndex(d, n) ==
  Count({ m \in Siblings(d, n) : tagOf(d, m) = tagOf(d, n) /\ (m = n \/ Before(m, n)) })

\* a compound selector, optionally with a `parent >` in front: its text and
\* what it asks of a node ("" and 0: nothing asked)
Compound(txt, tag, id, classes, nthChild, nthOfType, parent) ==
  [text |-> txt, tag |-> tag, id |-> id, classes |-> classes, nthChild |-> nthChild,
   nthOfType |-> nthOfType, parent |-> parent]

Match(d, n, sel) ==
  /\ sel.tag # "" => lower(tagOf(d, n)) = sel.tag
  /\ sel.id # "" => idOf(d, n) = sel.id
  /\ sel.classes \subseteq classesOf(d, n)
  /\ sel.nthChild # 0 => ChildIndex(d, n) = sel.nthChild
  /\ sel.nthOfType # 0 => TypeIndex(d, n) = sel.nthOfType
  /\ sel.parent # "" => parentTagOf(d, n) = sel.parent

\* document.querySelectorAll(selector)
querySelectorAll(d, sel) == { n \in Nodes(d) : Match(d, n, sel) }
First(d, matches) == CHOOSE n \in matches : \A m \in matches : m = n \/ Before(n, m)

\* className.trim().split(/\s+/): the class tokens in attribute order
ClassOrder == <<"product", "grid", "list">>
classList(el) == SelectSeq(ClassOrder, LAMBDA c : c \in el.className)
RECURSIVE JoinClasses(_)
JoinClasses(classes) ==
  IF classes = <<>> THEN "" ELSE "." \o Head(classes) \o JoinClasses(Tail(classes))
Range(seq) == { seq[i] : i \in 1..Len(seq) }

IdSelector(id) == Compound("#" \o id, "", id, {}, 0, 0, "")
ClassSelector(classes) == Compound(JoinClasses(classes), "", "", Range(classes), 0, 0, "")

\* the `.class` selectors kept: those whose match count is in lo..hi
RECURSIVE ClassSelectors(_, _, _, _)
ClassSelectors(d, classes, lo, hi) ==
  IF classes = <<>> THEN <<>>
  ELSE LET sel == ClassSelector(<<Head(classes)>>)
           matches == Count(querySelectorAll(d, sel))
       IN (IF matches >= lo /\ matches <= hi THEN <<sel>> ELSE <<>>)
          \o ClassSelectors(d, Tail(classes), lo, hi)

\* all two-class combinations, i < j
ClassPairs(classes) ==
  LET n == Len(classes)
      pair(q) == <<((q - 1) \div n) + 1, ((q - 1) % n) + 1>>
      all == [q \in 1..(n * n) |-> pair(q)]
  IN [q \in 1..Len(SelectSeq(all, LAMBDA x : x[1] < x[2])) |->
        ClassSelector(<<classes[SelectSeq(all, LAMBDA x : x[1] < x[2])[q][1]],
                        classes[SelectSeq(all, LAMBDA x : x[1] < x[2])[q][2]]>>)]

\* `${tag}:nth-of-type(${position})` with the position among all `tag` nodes
\* of the document
PositionSelector(d, n) ==
  LET tag == lower(tagOf(d, n))
      similarElements == { m \in Nodes(d) : tagOf(d, m) = tagOf(d, n) }
      position == Count({ m \in similarElements : m = n \/ Before(m, n) })
  IN IF Count(similarElements) > 1
     THEN <<Compound(tag \o ":nth-of-type(" \o ToString(position) \o ")",
                     tag, "", {}, 0, position, "")>>
     ELSE <<>>

\* TableDetector.generatePathSelector for a child of body: one step, with
\* :nth-child(index of the node among its siblings of the same tag)
generatePathSelector(d, n) ==
  LET el == d[n[1]]
      tag == lower(el.tagName)
      classes == classList(el)
      one == IF Len(classes) = 1 THEN classes ELSE <<>>
      index == TypeIndex(d, n)
      many == Count({ m \in Siblings(d, n) : tagOf(d, m) = tagOf(d, n) }) > 1
  IN IF el.id # "" THEN Compound(tag \o "#" \o el.id, tag, el.id, {}, 0, 0, "")
     ELSE Compound(tag \o JoinClasses(one)
                     \o (IF many THEN ":nth-child(" \o ToString(index) \o ")" ELSE ""),
                   tag, "", Range(one), IF many THEN index ELSE 0, 0, "")

\* ListDetector.generatePathSelector for a child of body
generateListPathSelector(d, n) ==
  LET el == d[n[1]]
      tag == lower(el.tagName)
      classes == classList(el)
      one == IF Len(classes) = 1 /\ Count(querySelectorAll(d, ClassSelector(classes))) < 10
             THEN classes ELSE <<>>
  IN IF el.id # "" THEN Compound(tag \o "#" \o el.id, tag, el.id, {}, 0, 0, "")
     ELSE Compound(tag \o JoinClasses(one), tag, "", Range(one), 0, 0, "")

\* ProductDetector.generateStructureSelector: `${parentTag} > ${childTag}`
generateStructureSelector(d, n) ==
  LET children == d[n[1]].children
      childTag == lower(children[1].tagName)
      parentTag == lower(d[n[1]].tagName)
  IN IF Len(children) = 0 THEN <<>>
     ELSE IF (\A k \in 1..Len(children) : lower(children[k].tagName) = childTag)
             /\ Len(children) >= 3
          THEN <<Compound(parentTag \o " > " \o childTag, childTag, "", {}, 0, 0, parentTag)>>
          ELSE <<>>

\* what a ranker reads of an expression when it evaluates it for the target
Evaluated(d, sel, target) ==
  LET elements == querySelectorAll(d, sel)
  IN [selector |-> sel, throws |-> FALSE, length |-> Len(sel.text),
      matches |-> Count(elements),
      isExact |-> elements # {} /\ First(d, elements) = target,
      startsWithHash |-> sel.tag = "" /\ sel.id # "",
      hash |-> sel.id # "",
      dots |-> Count(sel.classes),
      child |-> sel.parent # "",
      attribute |-> FALSE]
EvaluateAll(d, options, target) ==
  [q \in 1..Len(options) |-> Evaluated(d, options[q], target)]

\* TableDetector.generateSelectors for one scored table
TableSelectors(d, n) ==
  LET el == d[n[1]]
      classes == classList(el)
      options ==
        (IF el.id # "" THEN <<IdSelector(el.id)>> ELSE <<>>)
        \o ClassSelectors(d, classes, 0, 9)
        \o (IF Len(classes) > 0 /\ Len(classes) <= 3 THEN <<ClassSelector(classes)>> ELSE <<>>)
        \o <<generatePathSelector(d, n)>>
        \o PositionSelector(d, n)
  IN rankSelectors(EvaluateAll(d, Distinct(options), n))

\* ListDetector.generateSelectors for one scored list
ListSelectors(d, n) ==
  LET el == d[n[1]]
      classes == classList(el)
      options ==
        (IF el.id # "" THEN <<IdSelector(el.id)>> ELSE <<>>)
        \o ClassSelectors(d, classes, 1, 19)
        \o (IF Len(classes) >= 2 /\ Len(classes) <= 4 THEN <<ClassSelector(classes)>> ELSE <<>>)
        \o <<generateListPathSelector(d, n)>>
        \o PositionSelector(d, n)
  IN rankListSelectors(EvaluateAll(d, options, n))

\* ProductDetector.generateSelectors for one scored container; the parent of
\* the container is body, so generateContextSelector returns null
ProductSelectors(d, n) ==
  LET el == d[n[1]]
      classes == classList(el)
      options ==
        (IF el.id # "" THEN <<IdSelector(el.id)>> ELSE <<>>)
        \o ClassSelectors(d, classes, 1, 10)
        \o (IF Len(classes) >= 2 /\ Len(classes) <= 4 THEN ClassPairs(classes) ELSE <<>>)
        \o generateStructureSelector(d, n)
  IN rankProductSelectors(EvaluateAll(d, options, n))

\* generateSelectors(scored): one entry per scored candidate
generateSelectors(kind, d, scored) ==
  [j \in 1..Len(scored) |->
     [element |-> scored[j].element,
      selectors |-> CASE kind = "table" -> TableSelectors(d, <<scored[j].element, 0>>)
                      [] kind = "list" -> ListSelectors(d, <<scored[j].element, 0>>)
                      [] kind = "product" -> ProductSelectors(d, <<scored[j].element, 0>>)]]

(* the three scoring passes over one document *)
ScoreInit ==
  /\ input \in { [set |-> TRUE, document |-> d] : d \in Documents }
  /\ output = NoOutput
  /\ EngineInit

\* positions 1..n: every node of the list handed to a scoring pass
Positions(d) == [i \in 1..Len(d) |-> i]

TableDetect ==
  /\ ~output.set
  /\ LET scored == scoreTables(input.document)
     IN output' = [set |-> TRUE, fn |-> "scoreTables",
                   threshold |-> TABLE_CONFIDENCE_THRESHOLD,
                   candidates |-> Positions(input.document),
                   result |-> scored,
                   selectors |-> generateSelectors("table", input.document, scored)]
  /\ UNCHANGED input
  /\ UNCHANGED engine

ListDetect ==
  /\ ~output.set
  /\ LET scored == scoreLists(input.document)
     IN output' = [set |-> TRUE, fn |-> "scoreLists",
                   threshold |-> LIST_CONFIDENCE_THRESHOLD,
                   candidates |-> Positions(input.document),
                   result |-> scored,
                   selectors |-> generateSelectors("list", input.document, scored)]
  /\ UNCHANGED input
  /\ UNCHANGED engine

\* `scoreContainers(this.findProductContainers())`
ProductDetect ==
  /\ ~output.set
  /\ LET containers == findProductContainers(input.document)
         scored == scoreContainers(input.document, containers)
     IN output' = [set |-> TRUE, fn |-> "scoreContainers",
                   threshold |-> PRODUCT_CONFIDENCE_THRESHOLD,
                   candidates |-> containers,
                   result |-> scored,
                   selectors |-> generateSelectors("product", input.document, scored)]
  /\ UNCHANGED input
  /\ UNCHANGED engine

ScoreNext == TableDetect \/ ListDetect \/ ProductDetect

ScoreSpec == ScoreInit /\ [][ScoreNext]_vars

\* place of a node in the list the scoring pass was given
Discovery(element) == CHOOSE i \in 1..Len(output.candidates) : output.candidates[i] = element

\* C14: every candidate a scoring pass returns has a score between the
\* threshold of its kind (0.6 tables, 0.5 lists, 0.6 products) and 1; the
\* list is in non-increasing score order and candidates of equal score keep
\* their discovery order.
ScoresAboveThresholdAndOrdered ==
  output.set =>
    /\ \A i \in 1..Len(output.result) :
         /\ output.result[i].score >= Pct(output.threshold)
         /\ output.result[i].score <= One
    /\ \A i, j \in 1..Len(output.result) :
         i < j => /\ output.result[i].score >= output.result[j].score
                  /\ output.result[i].score = output.result[j].score
                       => Discovery(output.result[i].element)
                            < Discovery(output.result[j].element)

\* two candidates of equal score and one of higher score have been returned
ScoresWitness ==
  /\ output.set
  /\ Len(output.result) = 2
  /\ output.result[1].score = output.result[2].score
  /\ output.result[1].confidence > One

\* C19: a container none of whose items holds a price or an image is never
\* returned as a product candidate by the finder strategies followed by
\* scoreContainers.
NoPriceNoImageRejected ==
  output.set /\ output.fn = "scoreContainers" =>
    \A i \in 1..Len(output.result) :
      LET items == input.document[output.result[i].element].children
      IN \E k \in 1..Len(items) : items[k].price \/ items[k].image

\* C16: every locator expression generateSelectors returns for a candidate
\* node matches at least one node of the unchanged document, and the candidate
\* node is among its matches.
SelectorsReidentifyNode ==
  output.set =>
    \A j \in 1..Len(output.selectors) :
      \A q \in 1..Len(output.selectors[j].selectors) :
        <<output.selectors[j].element, 0>>
          \in querySelectorAll(input.document, output.selectors[j].selectors[q].selector)

(* ----------------------- DOMScanner.scrape on a page -------------------- *)
\* most data rows of the table of a page
MaxRows == 2
\* most product-pattern elements of a page
MaxProducts == 1

\* null, and "no such element" for querySelector
Null == "<null>"
NoElement == "<none>"

\* the header cells of the table (th) and the texts a cell can hold
Header == <<"Name", "Price">>
CellTexts == {"Widget", "$9.99", ""}
DataRows == UNION { [1..n -> [1..Len(Header) -> CellTexts]] : n \in 0..MaxRows }
\* a table: a header row of th cells or none, then rows of td cells
Tables == { [header |-> h, rows |-> rs] : h \in BOOLEAN, rs \in DataRows }

\* elements matched by the product patterns, with what the extraction reads:
\* the text of the first title / price / description / rating element ("" when
\* there is none or it is blank), the src of the first img and the href of the
\* first a (NoElement: no such element, Null: no such attribute)
fullProduct ==
  [title |-> "Widget", price |-> "$9.99", img |-> "w.png", a |-> "/widget",
   description |-> "A widget", rating |-> "4.5", children |-> 3, button |-> TRUE]
imageOnly ==
  [title |-> "", price |-> "", img |-> "g.png", a |-> NoElement,
   description |-> "", rating |-> "", children |-> 2, button |-> FALSE]
noSource ==
  [title |-> "Gadget", price |-> "$19.99", img |-> Null, a |-> Null,
   description |-> "", rating |-> "", children |-> 2, button |-> TRUE]
textOnly ==
  [title |-> "About", price |-> "", img |-> NoElement, a |-> NoElement,
   description |-> "Text", rating |-> "", children |-> 2, button |-> FALSE]
ProductElements == {fullProduct, imageOnly, noSource, textOnly}

Pages ==
  { [tables |-> ts, products |-> ps] :
      ts \in {<<>>} \cup { <<t>> : t \in Tables },
      ps \in UNION { [1..n -> ProductElements] : n \in 0..MaxProducts } }

\* request.config: the mode, and config.selectors when it is given; the
\* selector of the list matches no node of any page
Modes == {"auto", "table", "list", "products", "custom"}
ScrapeConfigs ==
  { [mode |-> mode, selectors |-> sel] :
      mode \in Modes, sel \in {<<"undefined">>, <<"#does-not-exist">>} }
HasSelectors(config) == config.selectors # <<"undefined">>

\* table.rows: the header row, when there is one, and the data rows
RowsOf(table) == (IF table.header THEN <<Header>> ELSE <<>>) \o table.rows

\* rowData[`col${j}`] = cells[j].textContent.trim(), j from 0
ColumnKeys(cells) == { "col" \o ToString(j - 1) : j \in 1..Len(cells) }
RowData(cells) ==
  [key \in ColumnKeys(cells) |->
     cells[CHOOSE j \in 1..Len(cells) : key = "col" \o ToString(j - 1)]]

extractTableData(table, element) ==
  [headers |-> IF table.header THEN Header ELSE <<>>,
   rows |-> [i \in 1..Len(RowsOf(table)) |-> RowData(RowsOf(table)[i])],
   element |-> element]

detectTables(page) ==
  [type |-> "tables",
   data |-> [i \in 1..Len(page.tables) |-> extractTableData(page.tables[i], i)],
   confidence |-> IF Len(page.tables) > 0 THEN 90 ELSE 0]

\* detectLists and detectProducts are not defined: their detectors throw and
\* give null, and the reduce keeps the answer of detectTables, whose data is
\* an array
autoDetect(page) == detectTables(page)

isLikelyProduct(element) ==
  /\ element.price # "" \/ element.img # NoElement
  /\ element.children > 1 \/ element.button

extractText(found) == found
extractAttribute(found) == IF found = NoElement THEN "" ELSE found

DomExtractProductData(element, index) ==
  [title |-> extractText(element.title), price |-> extractText(element.price),
   image |-> extractAttribute(element.img), url |-> extractAttribute(element.a),
   description |-> extractText(element.description),
   rating |-> extractText(element.rating), element |-> index]

\* the elements the selectors match: every product element for the built-in
\* patterns, none for the selectors of the config
RECURSIVE LikelyProducts(_, _)
LikelyProducts(elements, n) ==
  IF n = 0 THEN <<>>
  ELSE LikelyProducts(elements, n - 1)
       \o (IF isLikelyProduct(elements[n])
           THEN <<DomExtractProductData(elements[n], n)>> ELSE <<>>)

extractProducts(config, page) ==
  IF HasSelectors(config) THEN <<>>
  ELSE LikelyProducts(page.products, Len(page.products))

\* DOMScanner.scrape: { data: results, metadata } or { error: message }
scrapePage(config, page) ==
  IF config.mode \in UndefinedMethodModes
  THEN [kind |-> "error", message |-> "is not a function"]
  ELSE IF config.mode = "auto"
  THEN [kind |-> "result", data |-> autoDetect(page)]
  ELSE [kind |-> "result", data |-> extractProducts(config, page)]

ScrapeInit ==
  /\ input \in { [set |-> TRUE, config |-> c, page |-> pg] : c \in ScrapeConfigs, pg \in Pages }
  /\ output = NoOutput
  /\ EngineInit

\* ContentController.handleExtract: sendResponse(this.domScanner.scrape(request.config))
scrapeRequest ==
  /\ ~output.set
  /\ output' = [set |-> TRUE, response |-> scrapePage(input.config, input.page)]
  /\ UNCHANGED input
  /\ UNCHANGED engine

ScrapeNext == scrapeRequest

ScrapeSpec == ScrapeInit /\ [][ScrapeNext]_vars

\* the records the table of a page stands for: one per data row, header -> cell
ExpectedRecords(table) ==
  [i \in 1..Len(table.rows) |->
     [h \in Range(Header) |->
        table.rows[i][CHOOSE j \in 1..Len(Header) : Header[j] = h]]]

\* C17: for a page whose table has a header row and n data rows, a request
\* with mode 'table' yields exactly the n records header -> cell text, in row
\* order, without the header row.
TableModeYieldsRecords ==
  output.set /\ input.config.mode = "table"
    /\ Len(input.page.tables) = 1 /\ input.page.tables[1].header
  => /\ output.response.kind = "result"
     /\ output.response.data = ExpectedRecords(input.page.tables[1])

\* C18: a request with mode 'custom' whose selectors match no node returns an
\* empty record list and no {error}.
CustomModeNoMatchIsEmpty ==
  output.set /\ input.config.mode = "custom" /\ HasSelectors(input.config)
  => /\ output.response.kind = "result"
     /\ output.response.data = <<>>

\* C20: no record an extraction returns holds a field that is null, undefined
\* or the empty string.
NoEmptyFields ==
  output.set /\ input.config.mode = "products" /\ output.response.kind = "result"
  => \A i \in 1..Len(output.response.data) :
       \A f \in DOMAIN output.response.data[i] \ {"element"} :
         output.response.data[i][f] \notin {"", Null}

(* ------------------- ProductDetector.extractData ------------------------ *)
\* the steps of the object literal of extractProductData, in evaluation order
FieldSteps == <<"title", "price", "url", "image", "description", "rating", "availability">>

\* extractTitle: the loop body declares `const element = element.querySelector(...)`,
\* which reads the block's own `element` before its initialisation: the first
\* iteration throws a ReferenceError for every node
extractTitle(element) == [thrown |-> TRUE, value |-> Null]

\* the other steps do not throw; the items carry a price text and an image or
\* not, and no link, description, rating or availability element
ExtractField(f, element, config) ==
  CASE f = "title" -> extractTitle(element)
    [] f = "price" ->
         [thrown |-> FALSE,
          value |-> IF config.includePrices /\ element.price THEN "$9.99" ELSE Null]
    [] f = "image" ->
         [thrown |-> FALSE,
          value |-> IF config.includeImages /\ element.image THEN "https://shop/w.png" ELSE Null]
    [] OTHER -> [thrown |-> FALSE, value |-> Null]

\* the record, or the exception of the first step that throws; the fields
\* that are null, undefined or '' are deleted
extractProductData(element, config) ==
  IF \E i \in 1..Len(FieldSteps) : ExtractField(FieldSteps[i], element, config).thrown
  THEN [thrown |-> TRUE, value |-> <<>>]
  ELSE LET kept == { f \in Range(FieldSteps) :
                       ExtractField(f, element, config).value \notin {"", Null} }
       IN [thrown |-> FALSE,
           value |-> [f \in kept |-> ExtractField(f, element, config).value]]

\* children.forEach over the first 2 * maxProducts children: no try around
\* extractProductData, so its exception leaves the loop and the method
RECURSIVE ProductsOf(_, _, _)
ProductsOf(children, n, config) ==
  IF n = 0 THEN [thrown |-> FALSE, value |-> <<>>]
  ELSE LET before == ProductsOf(children, n - 1, config)
           product == extractProductData(children[n], config)
       IN IF before.thrown \/ ~isProductLike(children[n]) THEN before
          ELSE IF product.thrown THEN [thrown |-> TRUE, value |-> <<>>]
          ELSE [thrown |-> FALSE,
                value |-> Append(before.value, [index |-> n, fields |-> product.value])]

extractProductsFromContainer(container, config) ==
  LET all == ProductsOf(container.children,
                        Min(Len(container.children), 2 * config.maxProducts), config)
  IN IF all.thrown THEN all
     ELSE [thrown |-> FALSE,
           value |-> SubSeq(all.value, 1, Min(Len(all.value), config.maxProducts))]

ExtractConfigs ==
  { [includePrices |-> p, includeImages |-> i, maxProducts |-> mx] :
      p \in BOOLEAN, i \in BOOLEAN, mx \in {1, 100} }

ExtractInit ==
  /\ input \in { [set |-> TRUE, container |-> c, config |-> cfg] :
                   c \in Elements, cfg \in ExtractConfigs }
  /\ output = NoOutput
  /\ EngineInit

\* ProductDetector.extractData(container, options)
productExtractData ==
  /\ ~output.set
  /\ output' = [set |-> TRUE,
                result |-> extractProductsFromContainer(input.container, input.config)]
  /\ UNCHANGED input
  /\ UNCHANGED engine

ExtractNext == productExtractData

ExtractSpec == ExtractInit /\ [][ExtractNext]_vars

\* the product-like children the extraction visits
Matched(container, config) ==
  { k \in 1..Min(Len(container.children), 2 * config.maxProducts) :
      isProductLike(container.children[k]) }

\* C21: when the extraction step of one field throws for a matched node, the
\* record of that node is still produced, without that field and with every
\* other field, and the records of the other nodes are unaffected.
PerFieldErrorIsolation ==
  output.set /\ Matched(input.container, input.config) # {} =>
    /\ ~output.result.thrown
    /\ Len(output.result.value)
         = Min(Count(Matched(input.container, input.config)), input.config.maxProducts)
    /\ \A i \in 1..Len(output.result.value) :
         LET record == output.result.value[i]
             item == input.container.children[record.index]
         IN /\ "title" \notin DOMAIN record.fields
            /\ input.config.includePrices /\ item.price => "price" \in DOMAIN record.fields

\* C25: under any interleaving of extract calls on one key, a result read from
\* the document earlier never overwrites the cached result of a later read
\* (and so a cache hit returns data read at most TTL before it).  The data of
\* a result is the version of the document it was read from.
EarlierReadNeverOverwritesLater ==
  [][\A k \in DOMAIN cache :
       cache[k].data.kind = "result" /\ cache'[k].data.kind = "result"
         => cache'[k].data.content >= cache[k].data.content]_vars

(* ---------------------------------------------------------------------- *)
(* The three finders with strategies that may throw                        *)
(* ---------------------------------------------------------------------- *)

\* nodes with enough items for every strategy to have something to say
FindElements == { e \in Elements : Len(e.children) >= MaxChildren - 1 }
FindDocuments == UNION { [1..n -> FindElements] : n \in DocLengths }

\* no strategy throws, one throws, all but one throw, or all of them throw
Failures(names) ==
  {{}} \cup { {f} : f \in Range(names) } \cup { Range(names) \ {f} : f \in Range(names) }
       \cup {Range(names)}

FindInit ==
  /\ input \in { [set |-> TRUE, document |-> d] : d \in FindDocuments }
  /\ output = NoOutput
  /\ EngineInit

\* TableDetector.findAllTables()
findAllTables ==
  /\ ~output.set
  /\ \E failing \in Failures(TableStrategies) :
       output' = [set |-> TRUE, strategies |-> TableStrategies, failing |-> failing,
                  candidates |-> Distinct(Nominated(input.document, TableStrategies, failing))]
  /\ UNCHANGED input
  /\ UNCHANGED engine

\* ListDetector.findAllLists()
findAllLists ==
  /\ ~output.set
  /\ \E failing \in Failures(ListStrategies) :
       output' = [set |-> TRUE, strategies |-> ListStrategies, failing |-> failing,
                  candidates |-> Distinct(Nominated(input.document, ListStrategies, failing))]
  /\ UNCHANGED input
  /\ UNCHANGED engine

\* ProductDetector.findProductContainers()
findAllProducts ==
  /\ ~output.set
  /\ \E failing \in Failures(ProductStrategies) :
       output' = [set |-> TRUE, strategies |-> ProductStrategies, failing |-> failing,
                  candidates |-> Distinct(Nominated(input.document, ProductStrategies, failing))]
  /\ UNCHANGED input
  /\ UNCHANGED engine

FindNext ==
  \/ findAllTables
  \/ findAllLists
  \/ findAllProducts

FindSpec == FindInit /\ [][FindNext]_vars

\* the nodes that the strategies which returned nominate
Surviving(d, names, failing) ==
  { i \in 1..Len(d) :
      \E k \in 1..Len(names) : names[k] \notin failing /\ Strategy(names[k], d[i]) }

\* C22: the candidates of a finder are exactly the union of the outputs of the
\* strategies that did not throw, each node once: a throwing strategy adds
\* nothing and stops no other strategy.
FinderIsUnionOfSurvivingStrategies ==
  output.set =>
    LET expected == Surviving(input.document, output.strategies, output.failing)
    IN /\ { output.candidates[j] : j \in 1..Len(output.candidates) } = expected
       /\ Len(output.candidates) = Count(expected)

\* one strategy threw although it had a node to nominate, a later strategy
\* nominated one, and a node was nominated by two strategies that returned
FinderWitness ==
  /\ output.set
  /\ \E k \in 1..Len(output.strategies) :
       /\ output.failing = {output.strategies[k]}
       /\ \E i \in 1..Len(input.document) :
            Strategy(output.strategies[k], input.document[i])
       /\ \E later \in (k + 1)..Len(output.strategies) :
            \E i \in 1..Len(input.document) :
              Strategy(output.strategies[later], input.document[i])
  /\ \E i \in 1..Len(input.document) :
       \E a, b \in Range(output.strategies) \ output.failing :
         a # b /\ Strategy(a, input.document[i]) /\ Strategy(b, input.document[i])
  /\ Len(output.candidates) = Len(input.document)
  /\ Len(input.document) = 2

\* at least MIN_ITEMS children of the node have one tag and class
SharesSignature(el) ==
  \E k \in 1..Len(el.children) :
    Count({ i \in 1..Len(el.children) :
              /\ el.children[i].tagName = el.children[k].tagName
              /\ el.children[i].className = el.children[k].className }) >= MIN_ITEMS

\* C26: findDivLists nominates a div or section if and only if at least 3 of
\* its children share one tag+class signature, whichever position they have
\* (the first child may have another signature).
DivListsNominatesSharedSignature ==
  /\ output.set
  /\ output.strategies = ListStrategies
  /\ output.failing = Range(ListStrategies) \ {"divLists"}
  => { output.candidates[j] : j \in 1..Len(output.candidates) }
       = { i \in 1..Len(input.document) :
             /\ input.document[i].tagName \in {"DIV", "SECTION"}
             /\ SharesSignature(input.document[i]) }

(* ---------------------------------------------------------------------- *)
(* The cache key of two requests                                           *)
(* ---------------------------------------------------------------------- *)

\* { mode: 'auto', processors: [] } written in both orders
CfgOrdered == [keys |-> <<"mode", "processors">>, mode |-> "auto", processors |-> NoProcessors]
CfgReordered == [keys |-> <<"processors", "mode">>, mode |-> "auto", processors |-> NoProcessors]
\* { mode: 'auto', selectors: undefined }
CfgUndefined == [keys |-> <<"mode", "selectors">>, mode |-> "auto", selectors |-> Undefined,
                 processors |-> NoProcessors]
\* the filter of CfgFilter with another predicate
CfgFilterOther == [keys |-> <<"mode", "processors">>, mode |-> "auto",
                   processors |-> <<[name |-> "filter", args |-> <<"gn">>]>>]
CfgSort == [keys |-> <<"mode", "processors">>, mode |-> "auto",
            processors |-> <<[name |-> "sort", args |-> <<"v">>]>>]
KeyConfigs == Configs \cup {CfgOrdered, CfgReordered, CfgUndefined, CfgFilterOther, CfgSort}
KeyTabs == {1, 2}

\* what the tab answers: the object DOMScanner.scrape returns, or an array
KeyResponse(kind, config) ==
  IF kind = "array" THEN Array(<<[ref |-> 1, v |-> 2], [ref |-> 2, v |-> 1]>>)
  ELSE scrape(JsonRoundTrip(config), 1)

KeyInit ==
  /\ input \in { [set |-> TRUE, first |-> a, second |-> b, response |-> r, inline |-> i] :
                   a \in [tabId : KeyTabs, config : KeyConfigs],
                   b \in [tabId : KeyTabs, config : KeyConfigs],
                   r \in {"object", "array"}, i \in BOOLEAN }
  /\ output = NoOutput
  /\ EngineInit

\* extract(first.tabId, first.config) on an empty cache, run to its end; the
\* post-processing is inline when no worker is free
extractFirst ==
  /\ ~output.set
  /\ LET data == KeyResponse(input.response, input.first.config)
         processed == IF input.inline THEN processInline(data, input.first.config)
                      ELSE processInWorker(data, input.first.config)
     IN output' = [set |-> TRUE, stage |-> 1, stored |-> ~processed.thrown,
                   key |-> cacheKey(input.first.tabId, input.first.config),
                   data |-> processed.value, hit |-> FALSE, returned |-> NoValue]
  /\ UNCHANGED input
  /\ UNCHANGED engine

\* extract(second.tabId, second.config) right after it: the cache lookup
extractSecond ==
  /\ output.set
  /\ output.stage = 1
  /\ LET hit == output.stored /\ cacheKey(input.second.tabId, input.second.config) = output.key
     IN output' = [output EXCEPT !.stage = 2, !.hit = hit,
                                 !.returned = IF hit THEN output.data ELSE NoValue]
  /\ UNCHANGED input
  /\ UNCHANGED engine

KeyNext ==
  \/ extractFirst
  \/ extractSecond

KeySpec == KeyInit /\ [][KeyNext]_vars

\* the same fields with the same values, in whatever order they were written
SameFields(a, b) ==
  /\ Range(a.keys) = Range(b.keys)
  /\ \A k \in Range(a.keys) : a[k] = b[k]

\* C23: two requests for the same tab whose configs have the same fields with
\* the same values, written in a different order, use the same cache entry:
\* the second one, issued within the TTL, is a cache hit.
CacheKeyIsCanonical ==
  /\ output.set
  /\ output.stage = 2
  /\ output.stored
  /\ input.first.tabId = input.second.tabId
  /\ SameFields(input.first.config, input.second.config)
  => output.hit

\* C24: two requests that differ in the tab or in a config value (a processor
\* argument such as the predicate of a filter, a field whose value is
\* undefined) never share a cache entry: a hit returns a result computed for
\* an equal (tab, config).
CacheKeySeparatesRequests ==
  output.set /\ output.stage = 2 /\ output.hit =>
    /\ input.first.tabId = input.second.tabId
    /\ SameFields(input.first.config, input.second.config)

(* ---------------------------------------------------------------------- *)
(* The structural-consistency fraction on long nodes                       *)
(* ---------------------------------------------------------------------- *)
\* rows / items of a node: one more than the longer sample of ten following rows
MaxSiblings == 11

\* a card under another class: the child count of a card, not its signature
wide == [card EXCEPT !.className = "wide"]

\* some cards, then links or wide cards
SiblingLists ==
  { [i \in 1..n |-> IF i <= k THEN card ELSE b] :
      n \in 0..MaxSiblings, k \in 0..MaxSiblings, b \in {link, wide} }

ConsistencyInit ==
  /\ input \in { [set |-> TRUE, node |-> [tagName |-> t, children |-> ch]] :
                   t \in {"TABLE", "DIV", "UL"}, ch \in SiblingLists }
  /\ output = NoOutput
  /\ EngineInit

\* TableDetector.getStructureScore(node)
structureScore ==
  /\ ~output.set
  /\ output' = [set |-> TRUE, sample |-> IF IsTable(input.node) THEN 10 ELSE 5,
                value |-> getStructureScore(input.node)]
  /\ UNCHANGED input
  /\ UNCHANGED engine

\* ListDetector.getConsistencyScore(node)
consistencyScore ==
  /\ ~output.set
  /\ output' = [set |-> TRUE, sample |-> 10, value |-> getConsistencyScore(input.node)]
  /\ UNCHANGED input
  /\ UNCHANGED engine

ConsistencyNext ==
  \/ structureScore
  \/ consistencyScore

ConsistencySpec == ConsistencyInit /\ [][ConsistencyNext]_vars

\* C27: for a node with n >= 2 rows the fraction is (number of the
\* min(sample, n - 1) rows following the first whose child count equals the
\* first row's) / min(sample, n - 1); it lies in [0, 1] and is 1 whenever all
\* rows have the child count of the first, also for n > 10 (n > 5).
ConsistencyFractionOfFollowingRows ==
  output.set /\ Len(input.node.children) >= 2 =>
    LET rows == input.node.children
        sampled == Min(output.sample, Len(rows) - 1)
    IN /\ output.value
            = Ratio(Count({ i \in 2..(sampled + 1) : rows[i].cells = rows[1].cells }), sampled)
       /\ output.value >= 0
       /\ output.value <= One
       /\ (\A i \in 2..Len(rows) : rows[i].cells = rows[1].cells) => output.value = One

(* ---------------------------------------------------------------------- *)
(* The content script: message listener and element picker                 *)
(* ---------------------------------------------------------------------- *)
\* start() is cut after this many listener registrations
MaxListeners == 2

\* the elements of the page the pointer can be over
PickerElements == {1, 2}
Keys == {"Escape", "a"}

\* the keys of the `actions` object of the listener
Actions == {"extract", "testSelector", "startElementPicker", "highlightElement",
            "stopElementPicker", "getStatus", "scrape"}
\* "constructor" is a property every object literal inherits
Requests ==
  { [action |-> a, config |-> c, element |-> e] :
      a \in Actions \cup {"export", "constructor"}, c \in {CfgAuto, CfgTable},
      e \in PickerElements \cup {0} }

\* ElementPicker.start: the three listeners are bound functions made here
start(p) ==
  IF p.isPicking THEN p ELSE [p EXCEPT !.isPicking = TRUE, !.listeners = @ + 1]

\* ElementPicker.stop: removeEventListener is handed functions made by a new
\* bind, which are no listeners of the document, so none is removed
stop(p) ==
  IF ~p.isPicking THEN p ELSE [p EXCEPT !.isPicking = FALSE, !.highlightedElement = 0]

\* a handler works on the picker and on the messages sent so far
handleMouseOver(state, element) ==
  IF element = state.picker.highlightedElement THEN state
  ELSE [state EXCEPT !.picker.highlightedElement = element]

handleClick(state) ==
  IF state.picker.highlightedElement # 0
  THEN [picker |-> stop(state.picker), sent |-> Append(state.sent, "elementPicked")]
  ELSE state

handleKeydown(state, key) ==
  IF key = "Escape"
  THEN [picker |-> stop(state.picker), sent |-> Append(state.sent, "pickerCancelled")]
  ELSE state

\* the document calls every listener registered for the event, in order
RECURSIVE Dispatch(_, _, _, _)
Dispatch(kind, state, arg, n) ==
  IF n = 0 THEN state
  ELSE LET before == Dispatch(kind, state, arg, n - 1)
       IN CASE kind = "mouseover" -> handleMouseOver(before, arg)
            [] kind = "click" -> handleClick(before)
            [] kind = "keydown" -> handleKeydown(before, arg)

\* the handler of an action: the picker afterwards, the calls of sendResponse,
\* and whether an exception leaves the listener
Handle(request, p, d) ==
  CASE request.action \in {"extract", "scrape"} ->
         [picker |-> p, escaped |-> FALSE,
          responses |-> <<scrape(request.config, d).kind>>]
    [] request.action = "testSelector" ->
         [picker |-> p, escaped |-> FALSE, responses |-> <<"result">>]
    [] request.action = "startElementPicker" ->
         [picker |-> start(p), escaped |-> FALSE, responses |-> <<"started">>]
    [] request.action = "highlightElement" ->
         [picker |-> IF request.element # 0
                     THEN [p EXCEPT !.highlightedElement = request.element] ELSE p,
          escaped |-> FALSE, responses |-> <<"highlighted">>]
    [] request.action = "stopElementPicker" ->
         [picker |-> stop(p), escaped |-> FALSE, responses |-> <<"stopped">>]
    [] request.action = "getStatus" ->
         \* this.domScanner.hasData is undefined: the TypeError is raised while
         \* the argument of sendResponse is built
         [picker |-> p, escaped |-> TRUE, responses |-> <<>>]
    [] request.action = "constructor" ->
         \* actions[request.action] is Object: it is called and answers nothing
         [picker |-> p, escaped |-> FALSE, responses |-> <<>>]
    [] OTHER ->
         [picker |-> p, escaped |-> FALSE, responses |-> <<"Unknown action">>]

NoEvent ==
  [set |-> FALSE, kind |-> "", action |-> "", wasPicking |-> FALSE, hadHighlight |-> FALSE,
   responses |-> <<>>, escaped |-> FALSE, sent |-> <<>>]

ContentInit ==
  /\ input = NoInput
  /\ output = NoEvent
  /\ EngineInit

\* the chrome.runtime.onMessage listener of setupMessageListeners
onMessage(request) ==
  /\ request.action = "startElementPicker" /\ ~picker.isPicking
       => picker.listeners < MaxListeners
  /\ LET handled == Handle(request, picker, doc)
     IN /\ picker' = handled.picker
        /\ output' = [NoEvent EXCEPT !.set = TRUE, !.kind = "message",
                                     !.action = request.action,
                                     !.wasPicking = picker.isPicking,
                                     !.responses = handled.responses,
                                     !.escaped = handled.escaped]
  /\ UNCHANGED input
  /\ UNCHANGED background

\* what an event leaves behind: the messages its listeners sent
Event(kind, sent) ==
  [NoEvent EXCEPT !.set = TRUE, !.kind = kind, !.wasPicking = picker.isPicking,
                  !.hadHighlight = picker.highlightedElement # 0, !.sent = sent]

\* a mouseover event on the document
mouseover(element) ==
  /\ LET after == Dispatch("mouseover", [picker |-> picker, sent |-> <<>>], element,
                           picker.listeners)
     IN picker' = after.picker /\ output' = Event("mouseover", after.sent)
  /\ UNCHANGED input
  /\ UNCHANGED background

\* a click event on the document
click ==
  /\ LET after == Dispatch("click", [picker |-> picker, sent |-> <<>>], 0, picker.listeners)
     IN picker' = after.picker /\ output' = Event("click", after.sent)
  /\ UNCHANGED input
  /\ UNCHANGED background

\* a keydown event on the document
keydown(key) ==
  /\ LET after == Dispatch("keydown", [picker |-> picker, sent |-> <<>>], key,
                           picker.listeners)
     IN picker' = after.picker /\ output' = Event("keydown", after.sent)
  /\ UNCHANGED input
  /\ UNCHANGED background

ContentNext ==
  \/ \E request \in Requests : onMessage(request)
  \/ \E element \in PickerElements : mouseover(element)
  \/ click
  \/ \E key \in Keys : keydown(key)

ContentSpec == ContentInit /\ [][ContentNext]_vars

\* C28: after start() and stop() calls that end with stop() (also the stop of
\* a click or of Escape) the picker is inactive: a mouseover highlights
\* nothing, a click sends no 'elementPicked' and Escape no 'pickerCancelled';
\* while picking, a click on the highlighted element sends exactly one
\* 'elementPicked', however many start / stop cycles came before.
PickerInactiveAfterStop ==
  output.set =>
    /\ output.kind \in {"mouseover", "click", "keydown"} /\ ~output.wasPicking
         => output.sent = <<>>
    /\ output.kind = "mouseover" /\ ~output.wasPicking /\ ~output.hadHighlight
         => picker.highlightedElement = 0
    /\ output.kind = "click" /\ output.wasPicking /\ output.hadHighlight
         => output.sent = <<"elementPicked">>

\* C29: every message the content script receives is answered exactly once:
\* the handler of each known action calls sendResponse once and lets no
\* exception leave the listener; any other action is answered with
\* {error: 'Unknown action: <action>'}.
EveryMessageAnsweredOnce ==
  output.set /\ output.kind = "message" =>
    /\ ~output.escaped
    /\ Len(output.responses) = 1
    /\ output.action \notin Actions => output.responses = <<"Unknown action">>

(* ---------------------------------------------------------------------- *)
(* TableDetector.extractData                                               *)
(* ---------------------------------------------------------------------- *)
\* rows of a table, the row of a thead included
MaxTableRows == 3
\* options.maxRows || 1000
DefaultMaxRows == 1000

\* the text of cell j of row i
CellText(i, j) == "r" \o ToString(i) \o "c" \o ToString(j)

\* a <table> (its first row inside a thead or not) or a div of rows, with
\* `rows` rows of `cols` cells
GridNodes ==
  { [tagName |-> t, tHead |-> h, rows |-> r, cols |-> c] :
      t \in {"TABLE", "DIV"}, h \in BOOLEAN, r \in 0..MaxTableRows, c \in {1, 2} }

\* options: includeHeaders true, false or not given; maxRows, 0 when not given
GridOptions ==
  { [includeHeaders |-> ih, maxRows |-> mx] :
      ih \in {"true", "false", "undefined"}, mx \in {0, 1, 2} }

\* the config object extractData builds from the options
GridConfig(options) ==
  [includeHeaders |-> options.includeHeaders # "false",
   maxRows |-> IF options.maxRows = 0 THEN DefaultMaxRows ELSE options.maxRows]

GeneratedHeaders(cols) == [j \in 1..cols |-> "Column " \o ToString(j)]

\* rows.slice(from, to) as the indices of the rows it keeps
SliceRows(n, from, to) ==
  [i \in 1..(Min(n, to) - Min(from, Min(n, to))) |-> from + i]

\* one object per kept row: its keys in column order and its cell texts
GridRecords(kept, headers, cols) ==
  [i \in 1..Len(kept) |->
     [row |-> kept[i],
      keys |-> [j \in 1..cols |-> IF j <= Len(headers) THEN headers[j]
                                   ELSE "Column " \o ToString(j)],
      values |-> [j \in 1..cols |-> CellText(kept[i], j)]]]

extractNativeTable(table, config) ==
  LET fromHead == IF config.includeHeaders /\ table.tHead /\ table.rows > 0
                  THEN [j \in 1..table.cols |-> CellText(1, j)] ELSE <<>>
      headers == IF fromHead = <<>> /\ table.rows > 0 THEN GeneratedHeaders(table.cols)
                 ELSE fromHead
  IN GridRecords(SliceRows(table.rows, IF Len(headers) > 0 THEN 1 ELSE 0, config.maxRows),
                 headers, table.cols)

extractDivTable(div, config) ==
  LET rows == Min(div.rows, config.maxRows)
      fromFirst == IF config.includeHeaders /\ rows > 0
                   THEN [j \in 1..div.cols |-> CellText(1, j)] ELSE <<>>
      headers == IF fromFirst = <<>> /\ rows > 0 THEN GeneratedHeaders(div.cols)
                 ELSE fromFirst
  IN GridRecords(SliceRows(rows, IF Len(headers) > 0 THEN 1 ELSE 0, rows), headers, div.cols)

GridInit ==
  /\ input \in { [set |-> TRUE, table |-> t, options |-> o] :
                   t \in { g \in GridNodes : g.tHead => g.tagName = "TABLE" /\ g.rows > 0 },
                   o \in GridOptions }
  /\ output = NoOutput
  /\ EngineInit

\* TableDetector.extractData(tableElement, options)
tableExtractData ==
  /\ ~output.set
  /\ output' = [set |-> TRUE,
                data |-> IF input.table.tagName = "TABLE"
                         THEN extractNativeTable(input.table, GridConfig(input.options))
                         ELSE extractDivTable(input.table, GridConfig(input.options))]
  /\ UNCHANGED input
  /\ UNCHANGED engine

GridNext == tableExtractData

GridSpec == GridInit /\ [][GridNext]_vars

\* C30: table extraction drops no data row.  For a table with r rows, with
\* includeHeaders false there are min(r, maxRows) records, one per row from the
\* first row on, keyed 'Column 1'..'Column k'; with includeHeaders true and a
\* header row there are min(r - 1, maxRows) records; never more than maxRows.
TableExtractionDropsNoRow ==
  output.set =>
    LET r == input.table.rows
        maxRows == GridConfig(input.options).maxRows
    IN /\ Len(output.data) <= maxRows
       /\ input.options.includeHeaders = "false" =>
            /\ Len(output.data) = Min(r, maxRows)
            /\ \A i \in 1..Len(output.data) :
                 /\ output.data[i].row = i
                 /\ output.data[i].keys = GeneratedHeaders(input.table.cols)
       /\ input.options.includeHeaders # "false" /\ r > 0
            /\ (input.table.tagName = "TABLE" => input.table.tHead) =>
            Len(output.data) = Min(r - 1, maxRows)

====
